---- MODULE Spec2Model ----
(***************************************************************************)
(* Model of the secure-event-correlator ingest pipeline:                   *)
(*   gateway/app/main.py        POST /ingest handler                        *)
(*   gateway/app/security.py    verify_signature, check_replay_window       *)
(*   gateway/app/idempotency.py IdempotencyStore                            *)
(*   gateway/app/rate_limit.py  FixedWindowRateLimiter                      *)
(*   engine/correlator.py       Correlator.evaluate                         *)
(*   engine/alert.py            AlertDeduper, build_alert                   *)
(*   engine/persistence/sqlite_store.py  SQLiteStore                        *)
(*                                                                         *)
(* Time is the gateway's UTC clock in whole seconds.  Every                *)
(* datetime.now() call of one handler run reads the same value: the        *)
(* handler has no suspension point after the body is read.                 *)
(*                                                                         *)
(* main.py imports SecurityEventV1 (gateway/app/models.py) and             *)
(* HostPolicyEngine (engine/policy.py); neither class is in the source     *)
(* tree, which still holds their predecessors TradingViewSignalEvent and   *)
(* RiskPolicyEngine.  engine/store.py likewise still builds its key from   *)
(* (strategy_id, symbol) while correlator.py calls it with the host.       *)
(* These three are modelled as the pipeline calls them; the trimming       *)
(* logic of the store follows engine/store.py line by line.                *)
(***************************************************************************)
EXTENDS Integers, Sequences, FiniteSets, TLC

(***************************************************************************)
(* Program constants                                                       *)
(***************************************************************************)
REPLAY_WINDOW_SECONDS == 120
RATE_LIMIT_PER_MIN == 300
RATE_WINDOW_SECONDS == 60
IDEMPO_TTL_SECONDS == 7 * 24 * 3600
store_window_seconds == 900
storm_window_seconds == 30
storm_threshold == 50
brute_window_seconds == 60
brute_threshold == 8
spray_window_seconds == 120
spray_unique_users_threshold == 5
spray_fail_threshold == 8
success_window_seconds == 600
success_prior_fail_threshold == 6
cooldown_seconds == 120
severity_floor == 0
ALERT_DEDUP_SECONDS == 300

(***************************************************************************)
(* Bounds of the model                                                     *)
(***************************************************************************)
\* SEC_RATE_LIMIT_PER_MIN of the gateway specification
GatewayRateLimit == 2
GatewayIds == 3
\* the clock advances in steps of TickStep seconds
TickStep == 30
\* short ticks are taken only up to Horizon seconds after a long sleep
Horizon == 60
\* number of sleeps of a whole idempotency TTL
MaxSleeps == 1

\* the clock value at start-up (any instant later than one TTL after year 1)
Epoch == 1000000

None == "<None>"

(***************************************************************************)
(* Strings produced by datetime.isoformat(): fixed-width decimal fields,   *)
(* compared by SQLite as TEXT, i.e. lexicographically.                     *)
(***************************************************************************)
IsoWidth == 7

RECURSIVE Pow10(_)
Pow10(n) == IF n = 0 THEN 1 ELSE 10 * Pow10(n - 1)

\* variant: the text keeps no seconds
isoformat_no_seconds(t) ==
  [i \in 1..IsoWidth |->
     IF i > IsoWidth - 2 THEN 0 ELSE (t \div Pow10(IsoWidth - i)) % 10]

isoformat(t) == [i \in 1..IsoWidth |-> (t \div Pow10(IsoWidth - i)) % 10]

RECURSIVE fromisoformat_(_, _)
fromisoformat_(s, i) ==
  IF i = 0 THEN 0 ELSE 10 * fromisoformat_(s, i - 1) + s[i]

fromisoformat(s) == fromisoformat_(s, Len(s))

\* TEXT comparison  a < b
TextLess(a, b) ==
  \E i \in 1..Len(a) :
     /\ i <= Len(b)
     /\ a[i] < b[i]
     /\ \A j \in 1..(i - 1) : a[j] = b[j]

(***************************************************************************)
(* Generic helpers                                                         *)
(***************************************************************************)
\* sum(1 for e in s if ...): flags[i] tells whether s[i] passes the filter
CountTrue(flags) == Cardinality({i \in 1..Len(flags) : flags[i]})

\* variant: the signed difference
Abs_signed(x) == x

Abs(x) == IF x < 0 THEN 0 - x ELSE x

\* dict[k] = v
Put(d, k, v) == (k :> v) @@ d

\* dict.pop(k, None)
Drop(d, ks) == [k \in (DOMAIN d) \ ks |-> d[k]]

(***************************************************************************)
(* gateway/app/security.py                                                 *)
(***************************************************************************)
SIG_PREFIX == "sha256="

\* HMAC-SHA256 as an ideal MAC: equal digests iff equal key and message
compute_signature(secretv, body) == [key |-> secretv, msg |-> body]

sha256_hex(body) == [sha256 |-> body]

\* variant: the digest is not compared
verify_signature_prefix_only(secretv, body, header_value) ==
  IF header_value.kind \in {"none", "empty"}
    THEN [ok |-> FALSE, reason |-> "missing_signature"]
  ELSE IF header_value.prefix # SIG_PREFIX
    THEN [ok |-> FALSE, reason |-> "bad_signature_format"]
  ELSE [ok |-> TRUE, reason |-> "ok"]

\* header_value: [kind: "none" | "empty" | "text", prefix, mac]
verify_signature(secretv, body, header_value) ==
  IF header_value.kind \in {"none", "empty"}
    THEN [ok |-> FALSE, reason |-> "missing_signature"]
  ELSE IF header_value.prefix # SIG_PREFIX
    THEN [ok |-> FALSE, reason |-> "bad_signature_format"]
  ELSE LET provided == header_value.mac
           expected == compute_signature(secretv, body)
       IN  IF provided # expected
             THEN [ok |-> FALSE, reason |-> "signature_mismatch"]
             ELSE [ok |-> TRUE, reason |-> "ok"]

\* variant: delta >= window_seconds rejects
check_replay_window_inclusive(sent_time_utc, window_seconds, nowv) ==
  LET delta == Abs(nowv - sent_time_utc)
  IN  IF delta >= window_seconds
        THEN [ok |-> FALSE, reason |-> "replay_window_exceeded"]
        ELSE [ok |-> TRUE, reason |-> "ok"]

check_replay_window(sent_time_utc, window_seconds, nowv) ==
  LET delta == Abs(nowv - sent_time_utc)
  IN  IF delta > window_seconds
        THEN [ok |-> FALSE, reason |-> "replay_window_exceeded"]
        ELSE [ok |-> TRUE, reason |-> "ok"]

(***************************************************************************)
(* engine/persistence/sqlite_store.py : table idempotency                  *)
(* a table is a function  event_id -> first_seen_utc (TEXT)                *)
(***************************************************************************)
idempo_seen(table, event_id) == event_id \in DOMAIN table

\* variant: INSERT OR REPLACE, the row takes the time of the call
idempo_mark_replace(table, event_id, nowv) ==
  Put(table, event_id, isoformat(nowv))

\* INSERT OR IGNORE
idempo_mark(table, event_id, nowv) ==
  IF event_id \in DOMAIN table THEN table
  ELSE Put(table, event_id, isoformat(nowv))

\* DELETE ... WHERE first_seen_utc < cutoff
idempo_gc(table, ttl_seconds, nowv) ==
  LET cutoff_iso == isoformat(nowv - ttl_seconds)
  IN  Drop(table, {k \in DOMAIN table : TextLess(table[k], cutoff_iso)})

(***************************************************************************)
(* gateway/app/idempotency.py : the in-memory dict _seen                   *)
(***************************************************************************)
\* variant: entries exactly ttl old are dropped too
_gc_inclusive(seen_, ttl, nowv) ==
  LET cutoff == nowv - ttl
  IN  Drop(seen_, {k \in DOMAIN seen_ : seen_[k] <= cutoff})

_gc(seen_, ttl, nowv) ==
  LET cutoff == nowv - ttl
  IN  Drop(seen_, {k \in DOMAIN seen_ : seen_[k] < cutoff})

(***************************************************************************)
(* gateway/app/rate_limit.py                                               *)
(* _counters: function key -> [window_start, count]                        *)
(***************************************************************************)
\* variant: the window is over only after more than window seconds
allow_late_rollover(counters, key, limit, window, nowv) ==
  IF key \notin DOMAIN counters \/ (nowv - counters[key].window_start) > window
    THEN [ok |-> TRUE, reason |-> "ok",
          counters |-> Put(counters, key, [window_start |-> nowv, count |-> 1])]
  ELSE IF counters[key].count >= limit
    THEN [ok |-> FALSE, reason |-> "rate_limited", counters |-> counters]
  ELSE [ok |-> TRUE, reason |-> "ok",
        counters |-> Put(counters, key,
                         [window_start |-> counters[key].window_start,
                          count |-> counters[key].count + 1])]

allow(counters, key, limit, window, nowv) ==
  IF key \notin DOMAIN counters \/ (nowv - counters[key].window_start) >= window
    THEN [ok |-> TRUE, reason |-> "ok",
          counters |-> Put(counters, key, [window_start |-> nowv, count |-> 1])]
  ELSE IF counters[key].count >= limit
    THEN [ok |-> FALSE, reason |-> "rate_limited", counters |-> counters]
  ELSE [ok |-> TRUE, reason |-> "ok",
        counters |-> Put(counters, key,
                         [window_start |-> counters[key].window_start,
                          count |-> counters[key].count + 1])]

(***************************************************************************)
(* engine/store.py : RollingEventStore, keyed by the host the correlator   *)
(* passes.  _events: function host -> sequence of EventRecord, oldest      *)
(* first; a host without a deque is not in the domain.                     *)
(***************************************************************************)
RECURSIVE _cleanup_queue(_, _, _)
_cleanup_queue(q, nowv, window) ==
  LET cutoff == nowv - window
  IN  IF q # <<>> /\ q[1].received_time_utc < cutoff
        THEN _cleanup_queue(Tail(q), nowv, window)
        ELSE q

\* variant: the deque is picked by the event source, not by the host
add_by_source(events_, record, window) ==
  LET key == record.source
      q == IF key \in DOMAIN events_ THEN events_[key] ELSE <<>>
  IN  Put(events_, key,
          _cleanup_queue(Append(q, record), record.received_time_utc,
                         window))

\* store.add(record): the key is the host
add(events_, record, window) ==
  LET key == record.host
      q == IF key \in DOMAIN events_ THEN events_[key] ELSE <<>>
  IN  Put(events_, key,
          _cleanup_queue(Append(q, record), record.received_time_utc,
                         window))

\* variant: no trim against the wall clock
get_recent_no_trim(events_, host, nowv, window) ==
  IF host \notin DOMAIN events_ \/ events_[host] = <<>>
    THEN [recent |-> <<>>, events |-> events_]
    ELSE [recent |-> events_[host], events |-> events_]

\* returns the snapshot and the store after the trim against the wall clock
get_recent(events_, host, nowv, window) ==
  IF host \notin DOMAIN events_ \/ events_[host] = <<>>
    THEN [recent |-> <<>>, events |-> events_]
    ELSE LET q == _cleanup_queue(events_[host], nowv, window)
         IN  [recent |-> q, events |-> Put(events_, host, q)]

(***************************************************************************)
(* engine/correlator.py : Correlator.evaluate                              *)
(***************************************************************************)
\* record.user or "unknown"
UserOrUnknown(u) == IF u = None \/ u = "" THEN "unknown" ELSE u

IsLoginFailed(e) == e.category = "auth" /\ e.action = "login_failed"

\* Rule 1: host event storm
storm_count_of(c, recent, nowv) ==
  LET storm_cutoff == nowv - c.storm_window
  IN  CountTrue([i \in 1..Len(recent) |->
                   recent[i].received_time_utc >= storm_cutoff])

\* variant: the threshold itself fires
storm_fires_at_threshold(c, storm_count) == storm_count >= c.storm_threshold

storm_fires(c, storm_count) == storm_count > c.storm_threshold

\* variant: only events received before the current one count
fail_count_of_earlier(c, recent, record, nowv) ==
  LET brute_cutoff == nowv - c.brute_window
      user == UserOrUnknown(record.user)
  IN  CountTrue([i \in 1..Len(recent) |->
                   /\ recent[i].received_time_utc >= brute_cutoff
                   /\ recent[i].received_time_utc < nowv
                   /\ IsLoginFailed(recent[i])
                   /\ UserOrUnknown(recent[i].user) = user])

\* Rule 2: brute force
fail_count_of(c, recent, record, nowv) ==
  LET brute_cutoff == nowv - c.brute_window
      user == UserOrUnknown(record.user)
  IN  CountTrue([i \in 1..Len(recent) |->
                   /\ recent[i].received_time_utc >= brute_cutoff
                   /\ IsLoginFailed(recent[i])
                   /\ UserOrUnknown(recent[i].user) = user])

\* variant: strictly more than the threshold
brute_fires_strict(c, fail_count) == fail_count > c.brute_threshold

brute_fires(c, fail_count) == fail_count >= c.brute_threshold

\* Rule 3: password spray (only evaluated when src_ip is truthy)
spray_fail_events(c, recent, record, nowv) ==
  LET spray_cutoff == nowv - c.spray_window
  IN  {i \in 1..Len(recent) : /\ recent[i].received_time_utc >= spray_cutoff
                              /\ IsLoginFailed(recent[i])
                              /\ recent[i].src_ip = record.src_ip}

spray_users(c, recent, record, nowv) ==
  {UserOrUnknown(recent[i].user) : i \in spray_fail_events(c, recent, record, nowv)}

\* variant: either threshold is enough
spray_fires_either(c, spray_fail_count, unique_users) ==
  \/ spray_fail_count >= c.spray_fail_threshold
  \/ unique_users >= c.spray_unique_users_threshold

spray_fires(c, spray_fail_count, unique_users) ==
  /\ spray_fail_count >= c.spray_fail_threshold
  /\ unique_users >= c.spray_unique_users_threshold

\* Rule 4: success after failures
prior_fails_of(c, recent, record, nowv) ==
  LET success_cutoff == nowv - c.success_window
      user == UserOrUnknown(record.user)
  IN  CountTrue([i \in 1..Len(recent) |->
                   /\ recent[i].received_time_utc >= success_cutoff
                   /\ IsLoginFailed(recent[i])
                   /\ UserOrUnknown(recent[i].user) = user])

\* variant: the threshold itself does not fire
success_fires_strict(c, prior_fails) == prior_fails > c.success_prior_fail_threshold

success_fires(c, prior_fails) == prior_fails >= c.success_prior_fail_threshold

\* variant: any entry of the list counts as the one looked for
InSeq_nonempty(x, s) == s # <<>>

\* x in s
InSeq(x, s) == \E i \in 1..Len(s) : s[i] = x

\* variant: a storm alone blocks
decision_of_storm_blocks(reasons) ==
  IF InSeq("ingest_storm", reasons) THEN "BLOCK"
  ELSE IF reasons # <<>> THEN "THROTTLE"
  ELSE "ALLOW"

\* decision policy
decision_of(reasons) ==
  IF InSeq("ingest_storm", reasons)
     /\ (InSeq("brute_force_suspected", reasons)
         \/ InSeq("password_spray_suspected", reasons))
    THEN "BLOCK"
  ELSE IF reasons # <<>> THEN "THROTTLE"
  ELSE "ALLOW"

\* variant: the newest reason comes first
append_in_front(reasons, tag) == <<tag>> \o reasons

\* reasons.append(tag)
append(reasons, tag) == Append(reasons, tag)

\* evaluate(record) of the correlator with fields c, with the store before
\* the call and the wall clock
evaluate(c, events_, record, wallnow) ==
  LET added == add(events_, record, c.store_window)
      got == get_recent(added, record.host, wallnow, c.store_window)
      recent == got.recent
      nowv == record.received_time_utc
      storm_count == storm_count_of(c, recent, nowv)
      r1 == IF storm_fires(c, storm_count)
              THEN append(<<>>, "ingest_storm") ELSE <<>>
      c1 == [storm_count |-> storm_count,
             storm_window_seconds |-> c.storm_window]
      user == UserOrUnknown(record.user)
      fail_count == fail_count_of(c, recent, record, nowv)
      r2 == IF brute_fires(c, fail_count)
              THEN append(r1, "brute_force_suspected") ELSE r1
      c2 == c1 @@ [brute_user |-> user,
                   login_failed_count |-> fail_count,
                   brute_window_seconds |-> c.brute_window]
      src_ip == record.src_ip
      has_ip == src_ip # None /\ src_ip # ""
      spray_fail_count == Cardinality(spray_fail_events(c, recent, record, nowv))
      unique_users == Cardinality(spray_users(c, recent, record, nowv))
      r3 == IF has_ip /\ spray_fires(c, spray_fail_count, unique_users)
              THEN append(r2, "password_spray_suspected") ELSE r2
      c3 == IF has_ip
              THEN c2 @@ [spray_src_ip |-> src_ip,
                          spray_fail_count |-> spray_fail_count,
                          spray_unique_users |-> unique_users,
                          spray_window_seconds |-> c.spray_window]
              ELSE c2
      is_success == record.category = "auth" /\ record.action = "login_success"
      prior_fails == prior_fails_of(c, recent, record, nowv)
      r4 == IF is_success /\ success_fires(c, prior_fails)
              THEN append(r3, "success_after_failures") ELSE r3
      c4 == IF is_success
              THEN c3 @@ [success_user |-> user,
                          success_prior_fail_count |-> prior_fails,
                          success_window_seconds |-> c.success_window]
              ELSE c3
      context == c4 @@ [recent_events_kept |-> Len(recent)]
  IN  [event_id |-> record.event_id,
       host |-> record.host,
       decision |-> decision_of(r4),
       reasons |-> r4,
       context |-> context,
       events |-> got.events]

(***************************************************************************)
(* engine/persistence/sqlite_store.py : table host_policy                  *)
(* a table is a function host -> [cooldown_until_utc, quarantine,          *)
(* updated_utc]; a NULL column is <<>>, a TEXT value t is <<t>>.           *)
(***************************************************************************)
\* variant: the quarantine column is not read
get_host_state_no_quarantine(table, host) ==
  IF host \notin DOMAIN table
    THEN [host |-> host, cooldown_until_utc |-> <<>>, quarantine |-> FALSE]
    ELSE [host |-> host,
          cooldown_until_utc |-> table[host].cooldown_until_utc,
          quarantine |-> FALSE]

get_host_state(table, host) ==
  IF host \notin DOMAIN table
    THEN [host |-> host, cooldown_until_utc |-> <<>>, quarantine |-> FALSE]
    ELSE [host |-> host,
          cooldown_until_utc |-> table[host].cooldown_until_utc,
          quarantine |-> table[host].quarantine = 1]

\* variant: INSERT OR IGNORE, an existing row is kept
set_host_state_keep_first(table, host, cooldown_until_utc, quarantine, nowv) ==
  IF host \in DOMAIN table THEN table
  ELSE Put(table, host, [cooldown_until_utc |-> cooldown_until_utc,
                         quarantine |-> IF quarantine THEN 1 ELSE 0,
                         updated_utc |-> isoformat(nowv)])

\* INSERT ... ON CONFLICT(host) DO UPDATE
set_host_state(table, host, cooldown_until_utc, quarantine, nowv) ==
  Put(table, host, [cooldown_until_utc |-> cooldown_until_utc,
                    quarantine |-> IF quarantine THEN 1 ELSE 0,
                    updated_utc |-> isoformat(nowv)])

(***************************************************************************)
(* HostPolicyEngine (host state machine Normal / Cooldown / Quarantined).  *)
(* The engine reads and writes the host state through the persistent       *)
(* store when one is configured, else through its in-memory map            *)
(* host -> [cooldown_until_utc, quarantine] with <<>> for no cooldown.     *)
(***************************************************************************)
quarantine_on == {"brute_force_suspected"}

\* state as the engine sees it: cooldown as an instant (<<>> or <<t>>)
load_state(use_sqlite, table, mem, host) ==
  IF use_sqlite
    THEN LET hs == get_host_state(table, host)
         IN  [cooldown_until_utc |->
                IF hs.cooldown_until_utc = <<>> THEN <<>>
                ELSE <<fromisoformat(hs.cooldown_until_utc[1])>>,
              quarantine |-> hs.quarantine]
    ELSE IF host \in DOMAIN mem THEN mem[host]
         ELSE [cooldown_until_utc |-> <<>>, quarantine |-> FALSE]

store_state(use_sqlite, table, mem, host, state, nowv) ==
  IF use_sqlite
    THEN [table |-> set_host_state(table, host,
                      IF state.cooldown_until_utc = <<>> THEN <<>>
                      ELSE <<isoformat(state.cooldown_until_utc[1])>>,
                      state.quarantine, nowv),
          mem |-> mem]
    ELSE [table |-> table, mem |-> Put(mem, host, state)]

\* variant: the quarantine state is tested before the severity floor
policy_outcome_quarantine_first(c, state, record, corr, nowv) ==
  IF state.quarantine
    THEN [decision |-> "BLOCK", reason |-> "host_quarantined",
          state |-> state, changed |-> FALSE]
  ELSE IF record.severity < c.severity_floor
    THEN [decision |-> "THROTTLE", reason |-> "below_severity_floor",
          state |-> state, changed |-> FALSE]
  ELSE IF state.cooldown_until_utc # <<>> /\ nowv < state.cooldown_until_utc[1]
    THEN [decision |-> "BLOCK", reason |-> "cooldown_active",
          state |-> state, changed |-> FALSE]
  ELSE IF corr.decision = "BLOCK"
    THEN IF \E i \in 1..Len(corr.reasons) : corr.reasons[i] \in quarantine_on
           THEN [decision |-> "BLOCK", reason |-> "quarantine_activated",
                 state |-> [state EXCEPT !.quarantine = TRUE],
                 changed |-> TRUE]
           ELSE [decision |-> "BLOCK", reason |-> "correlation_block",
                 state |-> [state EXCEPT !.cooldown_until_utc =
                                            <<nowv + c.cooldown_seconds>>],
                 changed |-> TRUE]
  ELSE IF corr.decision = "THROTTLE"
    THEN [decision |-> "THROTTLE", reason |-> "suspicious_cooldown_set",
          state |-> [state EXCEPT !.cooldown_until_utc =
                                     <<nowv + c.cooldown_seconds>>],
          changed |-> TRUE]
  ELSE [decision |-> "ALLOW", reason |-> "ok",
        state |-> state, changed |-> FALSE]

\* the outcome of the policy for a host state: decision, reason, new state
policy_outcome(c, state, record, corr, nowv) ==
  IF record.severity < c.severity_floor
    THEN [decision |-> "THROTTLE", reason |-> "below_severity_floor",
          state |-> state, changed |-> FALSE]
  ELSE IF state.quarantine
    THEN [decision |-> "BLOCK", reason |-> "host_quarantined",
          state |-> state, changed |-> FALSE]
  ELSE IF state.cooldown_until_utc # <<>> /\ nowv < state.cooldown_until_utc[1]
    THEN [decision |-> "BLOCK", reason |-> "cooldown_active",
          state |-> state, changed |-> FALSE]
  ELSE IF corr.decision = "BLOCK"
    THEN IF \E i \in 1..Len(corr.reasons) : corr.reasons[i] \in quarantine_on
           THEN [decision |-> "BLOCK", reason |-> "quarantine_activated",
                 state |-> [state EXCEPT !.quarantine = TRUE],
                 changed |-> TRUE]
           ELSE [decision |-> "BLOCK", reason |-> "correlation_block",
                 state |-> [state EXCEPT !.cooldown_until_utc =
                                            <<nowv + c.cooldown_seconds>>],
                 changed |-> TRUE]
  ELSE IF corr.decision = "THROTTLE"
    THEN [decision |-> "THROTTLE", reason |-> "suspicious_cooldown_set",
          state |-> [state EXCEPT !.cooldown_until_utc =
                                     <<nowv + c.cooldown_seconds>>],
          changed |-> TRUE]
  ELSE [decision |-> "ALLOW", reason |-> "ok",
        state |-> state, changed |-> FALSE]

policy_evaluate(c, use_sqlite, table, mem, record, corr, nowv) ==
  LET state == load_state(use_sqlite, table, mem, record.host)
      out == policy_outcome(c, state, record, corr, nowv)
      saved == IF out.changed
                 THEN store_state(use_sqlite, table, mem, record.host,
                                  out.state, nowv)
                 ELSE [table |-> table, mem |-> mem]
  IN  [event_id |-> record.event_id,
       host |-> record.host,
       decision |-> out.decision,
       reasons |-> <<out.reason>>,
       context |-> <<>>,
       table |-> saved.table,
       mem |-> saved.mem]

(***************************************************************************)
(* engine/alert.py                                                         *)
(***************************************************************************)
\* user or ''
OrEmpty(x) == IF x = None THEN "" ELSE x

\* f"{rule_id}|{host}|{user or ''}|{src_ip or ''}"
_key(rule_id, host, user, src_ip) ==
  rule_id \o "|" \o host \o "|" \o OrEmpty(user) \o "|" \o OrEmpty(src_ip)

\* variant: an alert needs more than the TTL since the last one
should_emit_after_ttl(last_emit, rule_id, host, user, src_ip, ttl, nowv) ==
  LET k == _key(rule_id, host, user, src_ip)
  IN  IF k \notin DOMAIN last_emit
        THEN [emit |-> TRUE, last_emit |-> Put(last_emit, k, nowv)]
      ELSE IF nowv - last_emit[k] > ttl
        THEN [emit |-> TRUE, last_emit |-> Put(last_emit, k, nowv)]
      ELSE [emit |-> FALSE, last_emit |-> last_emit]

\* _last_emit: function key -> instant of the last emitted alert
should_emit(last_emit, rule_id, host, user, src_ip, ttl, nowv) ==
  LET k == _key(rule_id, host, user, src_ip)
  IN  IF k \notin DOMAIN last_emit
        THEN [emit |-> TRUE, last_emit |-> Put(last_emit, k, nowv)]
      ELSE IF nowv - last_emit[k] >= ttl
        THEN [emit |-> TRUE, last_emit |-> Put(last_emit, k, nowv)]
      ELSE [emit |-> FALSE, last_emit |-> last_emit]

\* uuid4() is a fresh id: the position of the alert in the sink
build_alert(alert_id, rule_id, host, severity, confidence, user, src_ip, reasons, context, nowv) ==
  [alert_id |-> alert_id, rule_id |-> rule_id, host |-> host,
   severity |-> severity, confidence |-> confidence,
   created_time_utc |-> isoformat(nowv), user |-> user, src_ip |-> src_ip,
   first_seen_utc |-> None, last_seen_utc |-> None, count |-> None,
   reasons |-> reasons, context |-> context]

(***************************************************************************)
(* State                                                                   *)
(***************************************************************************)
VARIABLES
  now,        \* the gateway clock, seconds
  secret,     \* ARES_SHARED_SECRET ("" when unset)
  useSqlite,  \* SEC_USE_SQLITE = "1"
  cfg,        \* the constructor arguments of the singletons of main.py
  seenMem,    \* IdempotencyStore._seen
  idemTable,  \* SQLite table idempotency
  counters,   \* FixedWindowRateLimiter._counters
  events,     \* RollingEventStore._events
  hostMem,    \* host policy map, in memory
  hostTable,  \* SQLite table host_policy
  lastEmit,   \* AlertDeduper._last_emit
  alerts,     \* engine/out/alerts.jsonl, one entry per line
  req,        \* the request handled last
  resp,       \* its response, the steps it ran and its audit records
  call,       \* the last direct call of a component method and its result
  accepted,   \* history: event_id -> its latest 200: the instant, the body,
              \*   and whether it retried the 429 received just before
  sleeps,     \* history: number of long sleeps taken
  _pos,       \* PaperPortfolio._pos
  _risk,      \* PaperPortfolio._risk
  tasks       \* the runs of ingest in flight: where each one stands

vars == <<now, secret, useSqlite, cfg, seenMem, idemTable, counters, events,
          hostMem, hostTable, lastEmit, alerts, req, resp, call, accepted,
          sleeps, _pos, _risk, tasks>>

\* the mutable components a handler run may change
Current ==
  [seenMem |-> seenMem, idemTable |-> idemTable, counters |-> counters,
   events |-> events, hostMem |-> hostMem, hostTable |-> hostTable,
   lastEmit |-> lastEmit, alerts |-> alerts]

(***************************************************************************)
(* gateway/app/main.py : POST /ingest                                      *)
(***************************************************************************)
ClientIp == "10.0.0.9"

\* the arguments main.py passes (environment defaults)
DefaultCfg ==
  [replay_window |-> REPLAY_WINDOW_SECONDS,
   rate_limit |-> RATE_LIMIT_PER_MIN,
   rate_window |-> RATE_WINDOW_SECONDS,
   idempo_ttl |-> IDEMPO_TTL_SECONDS,
   store_window |-> store_window_seconds,
   storm_window |-> storm_window_seconds,
   storm_threshold |-> storm_threshold,
   brute_window |-> brute_window_seconds,
   brute_threshold |-> brute_threshold,
   spray_window |-> spray_window_seconds,
   spray_unique_users_threshold |-> spray_unique_users_threshold,
   spray_fail_threshold |-> spray_fail_threshold,
   success_window |-> success_window_seconds,
   success_prior_fail_threshold |-> success_prior_fail_threshold,
   cooldown_seconds |-> cooldown_seconds,
   severity_floor |-> severity_floor,
   alert_ttl |-> ALERT_DEDUP_SECONDS]

NoDecision == [decision |-> None, reasons |-> <<>>, context |-> <<>>]

\* audit.write({...}) of a rejection before the event is parsed
reject_record(reason, body_hash, nowv) ==
  [type |-> "gateway_reject", path |-> "/ingest", client_ip |-> ClientIp,
   verification_status |-> "fail", verification_reason |-> reason,
   body_sha256 |-> body_hash, received_time_utc |-> isoformat(nowv)]

\* variant: the event's fields are left out of the record
reject_record_event_bare(reason, body_hash, event, nowv) ==
  reject_record(reason, body_hash, nowv)

\* audit.write({...}) of a rejection of a parsed event
reject_record_event(reason, body_hash, event, nowv) ==
  reject_record(reason, body_hash, nowv)
    @@ [event_id |-> event.event_id, host |-> event.host,
        source |-> event.source]

\* variant: a rejection charges the quota of every host that has a counter
Reject_charged(st, status, detail, steps, audit, nowv) ==
  [st |-> [st EXCEPT !.counters =
             [k \in DOMAIN st.counters |->
                [st.counters[k] EXCEPT !.count = @ + 1]]],
   resp |-> [status |-> status, detail |-> detail, at |-> nowv,
             steps |-> steps,
             audit |-> audit, correlation |-> NoDecision,
             policy |-> NoDecision, final_decision |-> None]]

\* raise HTTPException(status_code, detail) after the given audit writes
Reject(st, status, detail, steps, audit, nowv) ==
  [st |-> st,
   resp |-> [status |-> status, detail |-> detail, at |-> nowv,
             steps |-> steps,
             audit |-> audit, correlation |-> NoDecision,
             policy |-> NoDecision, final_decision |-> None]]

reason_to_rule ==
  [brute_force_suspected |-> [rule_id |-> "BRUTE_FORCE_V1", sev |-> 7, conf |-> 75],
   password_spray_suspected |-> [rule_id |-> "PASSWORD_SPRAY_V1", sev |-> 8, conf |-> 80],
   success_after_failures |-> [rule_id |-> "SUCCESS_AFTER_FAILURES_V1", sev |-> 8, conf |-> 70],
   ingest_storm |-> [rule_id |-> "INGEST_STORM_V1", sev |-> 5, conf |-> 60]]

RECURSIVE emit_alerts(_, _, _, _, _)
RECURSIVE emit_alerts_refresh(_, _, _, _, _)
\* variant: a suppressed alert still moves the last-emit time of its key
emit_alerts_refresh(reasons, record, corr, acc, nowv) ==
  IF reasons = <<>> THEN acc
  ELSE
    LET r == Head(reasons)
    IN  IF r \notin DOMAIN reason_to_rule
          THEN emit_alerts_refresh(Tail(reasons), record, corr, acc, nowv)
          ELSE
            LET rule == reason_to_rule[r]
                se == should_emit(acc.lastEmit, rule.rule_id, record.host,
                                  record.user, record.src_ip,
                                  cfg.alert_ttl, nowv)
                alert == build_alert(Len(acc.alerts) + 1, rule.rule_id,
                                     record.host, rule.sev, rule.conf,
                                     record.user, record.src_ip, <<r>>,
                                     corr.context, nowv)
                emitted == [type |-> "alert_emitted",
                            alert_id |-> alert.alert_id,
                            rule_id |-> alert.rule_id, host |-> alert.host,
                            severity |-> alert.severity,
                            confidence |-> alert.confidence,
                            reasons |-> alert.reasons,
                            received_time_utc |-> isoformat(nowv)]
            IN  IF se.emit
                  THEN emit_alerts_refresh(Tail(reasons), record, corr,
                         [lastEmit |-> se.last_emit,
                          alerts |-> Append(acc.alerts, alert),
                          audit |-> Append(acc.audit, emitted)], nowv)
                  ELSE emit_alerts_refresh(Tail(reasons), record, corr,
                         [acc EXCEPT !.lastEmit =
                            Put(se.last_emit,
                                _key(rule.rule_id, record.host, record.user,
                                     record.src_ip), nowv)], nowv)

\* for r in corr.reasons: ... ; acc = [lastEmit, alerts, audit]
emit_alerts(reasons, record, corr, acc, nowv) ==
  IF reasons = <<>> THEN acc
  ELSE
    LET r == Head(reasons)
    IN  IF r \notin DOMAIN reason_to_rule
          THEN emit_alerts(Tail(reasons), record, corr, acc, nowv)
          ELSE
            LET rule == reason_to_rule[r]
                se == should_emit(acc.lastEmit, rule.rule_id, record.host,
                                  record.user, record.src_ip,
                                  cfg.alert_ttl, nowv)
                alert == build_alert(Len(acc.alerts) + 1, rule.rule_id,
                                     record.host, rule.sev, rule.conf,
                                     record.user, record.src_ip, <<r>>,
                                     corr.context, nowv)
                emitted == [type |-> "alert_emitted",
                            alert_id |-> alert.alert_id,
                            rule_id |-> alert.rule_id, host |-> alert.host,
                            severity |-> alert.severity,
                            confidence |-> alert.confidence,
                            reasons |-> alert.reasons,
                            received_time_utc |-> isoformat(nowv)]
            IN  IF se.emit
                  THEN emit_alerts(Tail(reasons), record, corr,
                         [lastEmit |-> se.last_emit,
                          alerts |-> Append(acc.alerts, alert),
                          audit |-> Append(acc.audit, emitted)], nowv)
                  ELSE emit_alerts(Tail(reasons), record, corr,
                         [acc EXCEPT !.lastEmit = se.last_emit], nowv)

\* steps 6-8 of the handler: the event passed the admission chain
Process(st, event, body_hash, steps, nowv) ==
  LET record == [event_id |-> event.event_id, source |-> event.source,
                 host |-> event.host, category |-> event.category,
                 action |-> event.action, severity |-> event.severity,
                 timestamp_utc |-> event.timestamp_utc,
                 received_time_utc |-> nowv,
                 user |-> event.user, src_ip |-> event.src_ip]
      corr == evaluate(cfg, st.events, record, nowv)
      policy == policy_evaluate(cfg, useSqlite, st.hostTable, st.hostMem,
                                record, corr, nowv)
      al == emit_alerts(corr.reasons, record, corr,
                        [lastEmit |-> st.lastEmit, alerts |-> st.alerts,
                         audit |-> <<>>], nowv)
      accept == [type |-> "gateway_accept", path |-> "/ingest",
                 client_ip |-> ClientIp, verification_status |-> "pass",
                 verification_reason |-> "ok", body_sha256 |-> body_hash,
                 event_id |-> event.event_id, host |-> event.host,
                 source |-> event.source, category |-> event.category,
                 action |-> event.action, severity |-> event.severity,
                 received_time_utc |-> isoformat(nowv)]
      corr_rec == [type |-> "correlation_decision",
                   event_id |-> corr.event_id, host |-> corr.host,
                   decision |-> corr.decision, reasons |-> corr.reasons,
                   context |-> corr.context,
                   received_time_utc |-> isoformat(nowv)]
      policy_rec == [type |-> "policy_decision",
                     event_id |-> policy.event_id, host |-> policy.host,
                     decision |-> policy.decision,
                     reasons |-> policy.reasons,
                     context |-> policy.context,
                     received_time_utc |-> isoformat(nowv)]
  IN  [st |-> [st EXCEPT !.events = corr.events,
                         !.hostTable = policy.table,
                         !.hostMem = policy.mem,
                         !.lastEmit = al.lastEmit,
                         !.alerts = al.alerts],
       resp |-> [status |-> 200, detail |-> "ok", at |-> nowv,
                 steps |-> steps \o <<"correlate", "policy", "alerts", "audit">>,
                 audit |-> al.audit \o <<accept, corr_rec, policy_rec>>,
                 correlation |-> [decision |-> corr.decision,
                                  reasons |-> corr.reasons,
                                  context |-> corr.context],
                 policy |-> [decision |-> policy.decision,
                             reasons |-> policy.reasons,
                             context |-> policy.context],
                 final_decision |-> policy.decision]]

\* idempo.seen(event_id): the answer and the store after the call
seen(st, event_id, nowv) ==
  IF useSqlite
    THEN [seen |-> idempo_seen(st.idemTable, event_id), st |-> st]
    ELSE LET g == _gc(st.seenMem, cfg.idempo_ttl, nowv)
         IN  [seen |-> event_id \in DOMAIN g, st |-> [st EXCEPT !.seenMem = g]]

\* variant: the mark is lost
mark_lost(st, event_id, nowv) == st

\* idempo.mark(event_id), then the opportunistic sqlite.idempo_gc
mark(st, event_id, nowv) ==
  IF useSqlite
    THEN [st EXCEPT !.idemTable =
            idempo_gc(idempo_mark(st.idemTable, event_id, nowv),
                      cfg.idempo_ttl, nowv)]
    ELSE [st EXCEPT !.seenMem = Put(st.seenMem, event_id, nowv)]

\* variant: the event is marked before the rate limit is consulted
Admit_mark_first(st, event, body_hash, nowv) ==
  LET rw == check_replay_window(event.timestamp_utc, cfg.replay_window, nowv)
      sn == seen(st, event.event_id, nowv)
      mk == mark(sn.st, event.event_id, nowv)
      rl == allow(mk.counters, event.host, cfg.rate_limit,
                  cfg.rate_window, nowv)
  IN  IF ~rw.ok
        THEN Reject(st, 400, rw.reason, <<"signature", "parse", "replay">>,
                    <<reject_record_event(rw.reason, body_hash, event, nowv)>>, nowv)
      ELSE IF sn.seen
        THEN Reject(sn.st, 409, "duplicate_event_id",
                    <<"signature", "parse", "replay", "idempotency_seen">>,
                    <<reject_record_event("duplicate_event_id", body_hash,
                                          event, nowv)>>, nowv)
      ELSE IF ~rl.ok
        THEN Reject([mk EXCEPT !.counters = rl.counters], 429, rl.reason,
                    <<"signature", "parse", "replay", "idempotency_seen",
                      "rate_limit">>,
                    <<reject_record_event(rl.reason, body_hash, event, nowv)>>, nowv)
      ELSE Process([mk EXCEPT !.counters = rl.counters],
                   event, body_hash,
                   <<"signature", "parse", "replay", "idempotency_seen",
                     "rate_limit", "idempotency_mark">>, nowv)

\* steps 3-5 of the handler: the body parsed into a valid event
Admit(st, event, body_hash, nowv) ==
  LET rw == check_replay_window(event.timestamp_utc, cfg.replay_window, nowv)
      sn == seen(st, event.event_id, nowv)
      rl == allow(sn.st.counters, event.host, cfg.rate_limit,
                  cfg.rate_window, nowv)
  IN  IF ~rw.ok
        THEN Reject(st, 400, rw.reason, <<"signature", "parse", "replay">>,
                    <<reject_record_event(rw.reason, body_hash, event, nowv)>>, nowv)
      ELSE IF sn.seen
        THEN Reject(sn.st, 409, "duplicate_event_id",
                    <<"signature", "parse", "replay", "idempotency_seen">>,
                    <<reject_record_event("duplicate_event_id", body_hash,
                                          event, nowv)>>, nowv)
      ELSE IF ~rl.ok
        THEN Reject([sn.st EXCEPT !.counters = rl.counters], 429, rl.reason,
                    <<"signature", "parse", "replay", "idempotency_seen",
                      "rate_limit">>,
                    <<reject_record_event(rl.reason, body_hash, event, nowv)>>, nowv)
      ELSE Process(mark([sn.st EXCEPT !.counters = rl.counters],
                        event.event_id, nowv),
                   event, body_hash,
                   <<"signature", "parse", "replay", "idempotency_seen",
                     "rate_limit", "idempotency_mark">>, nowv)

\* variant: the body is parsed before the signature is verified
Handle_parse_first(r, nowv) ==
  LET raw == r.body
      body_hash == sha256_hex(raw)
      sig_header == r.hdr
      st == Current
      v == verify_signature(secret, raw, sig_header)
  IN  IF raw.kind = "garbage"
        THEN Reject(st, 400, "invalid_json", <<"signature", "parse">>,
                    <<reject_record("invalid_json", body_hash, nowv)>>, nowv)
      ELSE IF raw.kind = "badschema"
        THEN Reject(st, 400, "schema_validation_failed",
                    <<"signature", "parse">>,
                    <<reject_record("schema_validation_failed", body_hash, nowv)
                        @@ [error |-> "validation error"]>>, nowv)
      ELSE IF sig_header.kind \in {"none", "empty"}
        THEN Reject(st, 401, "missing_signature", <<"signature">>,
                    <<reject_record("missing_signature", body_hash, nowv)>>, nowv)
      ELSE IF secret = ""
        THEN Reject(st, 500, "ARES_SHARED_SECRET is not set",
                    <<"signature">>, <<>>, nowv)
      ELSE IF ~v.ok
        THEN Reject(st, 401, v.reason, <<"signature">>,
                    <<reject_record(v.reason, body_hash, nowv)>>, nowv)
      ELSE Admit(st, raw.event, body_hash, nowv)

\* the whole handler: new state components and the response
Handle(r, nowv) ==
  LET raw == r.body
      body_hash == sha256_hex(raw)
      sig_header == r.hdr
      st == Current
      v == verify_signature(secret, raw, sig_header)
  IN  IF sig_header.kind \in {"none", "empty"}
        THEN Reject(st, 401, "missing_signature", <<"signature">>,
                    <<reject_record("missing_signature", body_hash, nowv)>>, nowv)
      ELSE IF secret = ""
        THEN Reject(st, 500, "ARES_SHARED_SECRET is not set",
                    <<"signature">>, <<>>, nowv)
      ELSE IF ~v.ok
        THEN Reject(st, 401, v.reason, <<"signature">>,
                    <<reject_record(v.reason, body_hash, nowv)>>, nowv)
      ELSE IF raw.kind = "garbage"
        THEN Reject(st, 400, "invalid_json", <<"signature", "parse">>,
                    <<reject_record("invalid_json", body_hash, nowv)>>, nowv)
      ELSE IF raw.kind = "badschema"
        THEN Reject(st, 400, "schema_validation_failed",
                    <<"signature", "parse">>,
                    <<reject_record("schema_validation_failed", body_hash, nowv)
                        @@ [error |-> "validation error"]>>, nowv)
      ELSE Admit(st, raw.event, body_hash, nowv)

\* the handler from the body on (main.py:92-310), run without interruption
Serve(r) ==
  \E out \in {Handle(r, now)} :
      /\ req' = r
      /\ resp' = out.resp
      /\ seenMem' = out.st.seenMem
      /\ idemTable' = out.st.idemTable
      /\ counters' = out.st.counters
      /\ events' = out.st.events
      /\ hostMem' = out.st.hostMem
      /\ hostTable' = out.st.hostTable
      /\ lastEmit' = out.st.lastEmit
      /\ alerts' = out.st.alerts
      /\ accepted' = IF out.resp.status = 200
                        THEN Put(accepted, r.body.event.event_id,
                                 [at |-> now, body |-> r.body,
                                  retry |-> resp.status = 429 /\ req.body = r.body])
                        ELSE accepted
      /\ UNCHANGED <<now, secret, useSqlite, cfg, call, sleeps, _pos, _risk>>

\* a request handled with no other one in flight
Ingest(r) == Serve(r) /\ UNCHANGED tasks

(***************************************************************************)
(* The clock                                                               *)
(***************************************************************************)
\* seconds since the last long sleep (or since start-up)
SinceSleep == now - Epoch - sleeps * IDEMPO_TTL_SECONDS

Advance(d) ==
  /\ now' = now + d
  /\ UNCHANGED <<secret, useSqlite, cfg, seenMem, idemTable, counters, events,
                 hostMem, hostTable, lastEmit, alerts, req, resp, call,
                 accepted, sleeps, _pos, _risk, tasks>>

Tick ==
  /\ SinceSleep + TickStep <= Horizon
  /\ Advance(TickStep)

\* nothing arrives for a whole idempotency TTL
Sleep ==
  /\ sleeps < MaxSleeps
  /\ now' = now + IDEMPO_TTL_SECONDS
  /\ sleeps' = sleeps + 1
  /\ UNCHANGED <<secret, useSqlite, cfg, seenMem, idemTable, counters, events,
                 hostMem, hostTable, lastEmit, alerts, req, resp, call,
                 accepted, _pos, _risk, tasks>>

(***************************************************************************)
(* Requests                                                                *)
(***************************************************************************)
EventIds ==
  <<"evt-0001", "evt-0002", "evt-0003", "evt-0004", "evt-0005", "evt-0006",
    "evt-0007", "evt-0008", "evt-0009", "evt-0010", "evt-0011", "evt-0012">>

\* ids a client may send: those accepted before and the next unused one
IdsInPlay ==
  {EventIds[i] : i \in 1..IF Cardinality(DOMAIN accepted) + 1 < GatewayIds
                           THEN Cardinality(DOMAIN accepted) + 1
                           ELSE GatewayIds}

\* the next unused id, while fewer than n events were accepted
NextId(n) ==
  IF Cardinality(DOMAIN accepted) < n
    THEN {EventIds[Cardinality(DOMAIN accepted) + 1]}
    ELSE {}

\* timestamp_utc relative to the gateway clock
ReplayOffsets ==
  {0 - (REPLAY_WINDOW_SECONDS + 1), 0 - REPLAY_WINDOW_SECONDS,
   REPLAY_WINDOW_SECONDS, REPLAY_WINDOW_SECONDS + 1}

Event(id, host, ts, category, action, user, src_ip, severity) ==
  [event_id |-> id, source |-> "sensor", host |-> host, timestamp_utc |-> ts,
   category |-> category, action |-> action, severity |-> severity,
   user |-> user, src_ip |-> src_ip]

NoEvent == Event(None, None, 0, None, None, None, None, 0)

EventBody(e) == [kind |-> "event", event |-> e]
GarbageBody == [kind |-> "garbage", event |-> NoEvent]
BadSchemaBody == [kind |-> "badschema", event |-> NoEvent]

NoHeader == [kind |-> "none", prefix |-> "", mac |-> compute_signature("", GarbageBody)]
EmptyHeader == [kind |-> "empty", prefix |-> "", mac |-> compute_signature("", GarbageBody)]
Header(prefix, key, msg) ==
  [kind |-> "text", prefix |-> prefix, mac |-> compute_signature(key, msg)]

SharedKey == "k-shared"

\* the signed header a legitimate sensor sends with a body
Signed(body) == Header(SIG_PREFIX, SharedKey, body)

\* headers that must not verify for the body
BadHeaders(body) ==
  {NoHeader, EmptyHeader,
   Header("md5=", SharedKey, body),
   Header(SIG_PREFIX, "k-other", body),
   Header(SIG_PREFIX, SharedKey, GarbageBody)}

GatewayEvents ==
  {Event(id, "h1", now + off, "auth", "login_failed", "alice", None, 5) :
     id \in IdsInPlay, off \in ReplayOffsets}

GatewayRequests ==
  {[hdr |-> Signed(b), body |-> b] :
     b \in {GarbageBody, BadSchemaBody} \cup {EventBody(e) : e \in GatewayEvents}}
  \cup
  {[hdr |-> h, body |-> EventBody(e)] :
     h \in BadHeaders(EventBody(Event(EventIds[1], "h1", now, "auth",
                                       "login_failed", "alice", None, 5))),
     e \in {Event(EventIds[1], "h1", now, "auth", "login_failed", "alice",
                   None, 5)}}

\* requests sent again byte for byte: the last one and the accepted ones
Resent ==
  {r \in {req} : r.body.kind = "event"}
  \cup {[hdr |-> Signed(accepted[id].body), body |-> accepted[id].body] :
          id \in DOMAIN accepted}

IngestGateway == \E r \in GatewayRequests \cup Resent : Ingest(r)

(***************************************************************************)
(* Specification of the gateway: any mix of well-formed and malformed      *)
(* requests on one host, with the clock ticking.                           *)
(***************************************************************************)
NoRequest == [hdr |-> NoHeader, body |-> GarbageBody]
NoResponse ==
  [status |-> 0, detail |-> None, at |-> 0, steps |-> <<>>, audit |-> <<>>,
   correlation |-> NoDecision, policy |-> NoDecision,
   final_decision |-> None]

NoCall ==
  [op |-> None, key |-> None, ok |-> FALSE, reason |-> None, at |-> 0,
   before |-> <<>>]

Init ==
  /\ now = Epoch
  /\ secret \in {"", SharedKey}
  /\ useSqlite \in BOOLEAN
  /\ cfg = [DefaultCfg EXCEPT !.rate_limit = GatewayRateLimit]
  /\ seenMem = <<>>
  /\ idemTable = <<>>
  /\ counters = <<>>
  /\ events = <<>>
  /\ hostMem = <<>>
  /\ hostTable = <<>>
  /\ lastEmit = <<>>
  /\ alerts = <<>>
  /\ req = NoRequest
  /\ resp = NoResponse
  /\ call = NoCall
  /\ accepted = <<>>
  /\ sleeps = 0
  /\ _pos = <<>>
  /\ _risk = <<>>
  /\ tasks = <<>>

Next == IngestGateway \/ Tick

Spec == Init /\ [][Next]_vars

(***************************************************************************)
(* Specification of idempotency over time: signed events with fresh        *)
(* timestamps, re-sent requests, and sleeps of a whole TTL.                *)
(***************************************************************************)
TtlIds == 2

TtlRequests ==
  {[hdr |-> Signed(EventBody(e)), body |-> EventBody(e)] :
     e \in {Event(EventIds[i], "h1", now, "auth", "login_failed", "alice",
                   None, 5) : i \in 1..TtlIds}}

IngestTtl == \E r \in TtlRequests \cup Resent : Ingest(r)

InitTtl ==
  /\ now = Epoch
  /\ secret = SharedKey
  /\ useSqlite \in BOOLEAN
  /\ cfg = DefaultCfg
  /\ seenMem = <<>>
  /\ idemTable = <<>>
  /\ counters = <<>>
  /\ events = <<>>
  /\ hostMem = <<>>
  /\ hostTable = <<>>
  /\ lastEmit = <<>>
  /\ alerts = <<>>
  /\ req = NoRequest
  /\ resp = NoResponse
  /\ call = NoCall
  /\ accepted = <<>>
  /\ sleeps = 0
  /\ _pos = <<>>
  /\ _risk = <<>>
  /\ tasks = <<>>

NextTtl == IngestTtl \/ Tick \/ Sleep

SpecTtl == InitTtl /\ [][NextTtl]_vars

(***************************************************************************)
(* Specification of the rate limiter alone: allow() called for two keys    *)
(* while the clock ticks through two windows.                              *)
(***************************************************************************)
LimiterKeys == {"h1", "h2"}

\* rate_limiter.allow(key)
Allow(key) ==
  /\ \E out \in {allow(counters, key, cfg.rate_limit, cfg.rate_window, now)} :
       /\ counters' = out.counters
       /\ call' = [op |-> "allow", key |-> key, ok |-> out.ok,
                   reason |-> out.reason, at |-> now,
                   before |-> IF key \in DOMAIN counters
                                THEN <<counters[key]>> ELSE <<>>]
  /\ UNCHANGED <<now, secret, useSqlite, cfg, seenMem, idemTable, events,
                 hostMem, hostTable, lastEmit, alerts, req, resp, accepted,
                 sleeps, _pos, _risk, tasks>>

AllowAny == \E key \in LimiterKeys : Allow(key)

TickLimiter ==
  /\ now + TickStep <= Epoch + 2 * cfg.rate_window
  /\ Advance(TickStep)

InitLimiter ==
  /\ now = Epoch
  /\ secret = SharedKey
  /\ useSqlite = TRUE
  /\ cfg = [DefaultCfg EXCEPT !.rate_limit = GatewayRateLimit]
  /\ seenMem = <<>>
  /\ idemTable = <<>>
  /\ counters = <<>>
  /\ events = <<>>
  /\ hostMem = <<>>
  /\ hostTable = <<>>
  /\ lastEmit = <<>>
  /\ alerts = <<>>
  /\ req = NoRequest
  /\ resp = NoResponse
  /\ call = NoCall
  /\ accepted = <<>>
  /\ sleeps = 0
  /\ _pos = <<>>
  /\ _risk = <<>>
  /\ tasks = <<>>

NextLimiter == AllowAny \/ TickLimiter

SpecLimiter == InitLimiter /\ [][NextLimiter]_vars

(***************************************************************************)
(* Specification of the correlation flow: signed, fresh events of several  *)
(* kinds on one host, against a correlator constructed with small          *)
(* thresholds.                                                             *)
(***************************************************************************)
FlowIds == 3
FlowHorizon == 90
FlowStormThreshold == 2
FlowBruteThreshold == 2
FlowSprayFails == 2
FlowSprayUsers == 2
FlowPriorFails == 1

Kind(category, action, user, src_ip) ==
  [category |-> category, action |-> action, user |-> user, src_ip |-> src_ip]

FlowKinds ==
  {Kind("auth", "login_failed", "alice", "10.0.0.1"),
   Kind("auth", "login_failed", "bob", "10.0.0.1"),
   Kind("auth", "login_failed", None, None),
   Kind("auth", "login_failed", "", None),
   Kind("auth", "login_success", "alice", None),
   Kind("process", "start", "alice", "10.0.0.1")}

SignedEvent(e) == [hdr |-> Signed(EventBody(e)), body |-> EventBody(e)]

FlowRequests ==
  {SignedEvent(Event(id, "h1", now, k.category, k.action, k.user, k.src_ip, 5)) :
     id \in NextId(FlowIds), k \in FlowKinds}

IngestFlow == \E r \in FlowRequests : Ingest(r)

TickFlow ==
  /\ now + TickStep <= Epoch + FlowHorizon
  /\ Advance(TickStep)

FlowCfg ==
  [DefaultCfg EXCEPT !.storm_threshold = FlowStormThreshold,
                     !.brute_threshold = FlowBruteThreshold,
                     !.spray_fail_threshold = FlowSprayFails,
                     !.spray_unique_users_threshold = FlowSprayUsers,
                     !.success_prior_fail_threshold = FlowPriorFails]

InitFlow ==
  /\ now = Epoch
  /\ secret = SharedKey
  /\ useSqlite \in BOOLEAN
  /\ cfg = FlowCfg
  /\ seenMem = <<>>
  /\ idemTable = <<>>
  /\ counters = <<>>
  /\ events = <<>>
  /\ hostMem = <<>>
  /\ hostTable = <<>>
  /\ lastEmit = <<>>
  /\ alerts = <<>>
  /\ req = NoRequest
  /\ resp = NoResponse
  /\ call = NoCall
  /\ accepted = <<>>
  /\ sleeps = 0
  /\ _pos = <<>>
  /\ _risk = <<>>
  /\ tasks = <<>>

NextFlow == IngestFlow \/ TickFlow

SpecFlow == InitFlow /\ [][NextFlow]_vars

(***************************************************************************)
(* Specification of the default deployment: failed logins without a user   *)
(* name on one host, with a few events of other kinds in between, against  *)
(* the thresholds main.py constructs the correlator with.                  *)
(***************************************************************************)
DefaultsIds == 9
MaxNoise == 1
DefaultsTick == 60
DefaultsHorizon == 120

MainKind == Kind("auth", "login_failed", None, None)

NoiseKinds ==
  {Kind("auth", "login_failed", "", None),
   Kind("auth", "login_failed", "alice", None),
   Kind("auth", "login_success", None, None)}

\* events accepted so far that are not a plain failed login on h1
NoiseCount ==
  Cardinality({id \in DOMAIN accepted :
                 LET e == accepted[id].body.event
                 IN  e.host # "h1"
                     \/ Kind(e.category, e.action, e.user, e.src_ip) # MainKind})

DefaultsRequests ==
  {SignedEvent(Event(id, "h1", now, MainKind.category, MainKind.action,
                     MainKind.user, MainKind.src_ip, 5)) :
     id \in NextId(DefaultsIds)}
  \cup
  {SignedEvent(Event(id, h, now, k.category, k.action, k.user, k.src_ip, 5)) :
     id \in {i \in NextId(DefaultsIds) : NoiseCount < MaxNoise},
     h \in {"h1"}, k \in NoiseKinds}
  \cup
  {SignedEvent(Event(id, "h2", now, MainKind.category, MainKind.action,
                     MainKind.user, MainKind.src_ip, 5)) :
     id \in {i \in NextId(DefaultsIds) : NoiseCount < MaxNoise}}

IngestDefaults == \E r \in DefaultsRequests : Ingest(r)

TickDefaults ==
  /\ now + DefaultsTick <= Epoch + DefaultsHorizon
  /\ Advance(DefaultsTick)

InitDefaults ==
  /\ now = Epoch
  /\ secret = SharedKey
  /\ useSqlite = TRUE
  /\ cfg = DefaultCfg
  /\ seenMem = <<>>
  /\ idemTable = <<>>
  /\ counters = <<>>
  /\ events = <<>>
  /\ hostMem = <<>>
  /\ hostTable = <<>>
  /\ lastEmit = <<>>
  /\ alerts = <<>>
  /\ req = NoRequest
  /\ resp = NoResponse
  /\ call = NoCall
  /\ accepted = <<>>
  /\ sleeps = 0
  /\ _pos = <<>>
  /\ _risk = <<>>
  /\ tasks = <<>>

NextDefaults == IngestDefaults \/ TickDefaults

SpecDefaults == InitDefaults /\ [][NextDefaults]_vars

(***************************************************************************)
(* Specification of the detection rules: signed, fresh events with and     *)
(* without user and source address on one host, against a correlator       *)
(* constructed with small thresholds and a short success window.           *)
(***************************************************************************)
RulesIds == 3
RulesTick == 130
RulesHorizon == 260
RulesStormThreshold == 2
RulesBruteThreshold == 2
RulesSprayFails == 3
RulesSprayUsers == 2
RulesPriorFails == 1
RulesSuccessWindow == 200

RulesKinds ==
  {Kind("auth", "login_failed", "alice", "10.0.0.1"),
   Kind("auth", "login_failed", "bob", "10.0.0.1"),
   Kind("auth", "login_failed", None, None),
   Kind("auth", "login_failed", "bob", None),
   Kind("auth", "login_success", "", None),
   Kind("process", "start", "alice", "10.0.0.1")}

RulesRequests ==
  {SignedEvent(Event(id, "h1", now, k.category, k.action, k.user, k.src_ip, 5)) :
     id \in NextId(RulesIds), k \in RulesKinds}

IngestRules == \E r \in RulesRequests : Ingest(r)

TickRules ==
  /\ now + RulesTick <= Epoch + RulesHorizon
  /\ Advance(RulesTick)

RulesCfg ==
  [DefaultCfg EXCEPT !.storm_threshold = RulesStormThreshold,
                     !.brute_threshold = RulesBruteThreshold,
                     !.spray_fail_threshold = RulesSprayFails,
                     !.spray_unique_users_threshold = RulesSprayUsers,
                     !.success_prior_fail_threshold = RulesPriorFails,
                     !.success_window = RulesSuccessWindow]

InitRules ==
  /\ now = Epoch
  /\ secret = SharedKey
  /\ useSqlite = TRUE
  /\ cfg = RulesCfg
  /\ seenMem = <<>>
  /\ idemTable = <<>>
  /\ counters = <<>>
  /\ events = <<>>
  /\ hostMem = <<>>
  /\ hostTable = <<>>
  /\ lastEmit = <<>>
  /\ alerts = <<>>
  /\ req = NoRequest
  /\ resp = NoResponse
  /\ call = NoCall
  /\ accepted = <<>>
  /\ sleeps = 0
  /\ _pos = <<>>
  /\ _risk = <<>>
  /\ tasks = <<>>

NextRules == IngestRules \/ TickRules

SpecRules == InitRules /\ [][NextRules]_vars

(***************************************************************************)
(* Specification of an event storm against the default thresholds: one     *)
(* sensor posts up to StormEvents fresh events for host h1, a run of       *)
(* failed logins of alice first and plain events after it; the clock moves *)
(* only while few events were accepted.                                     *)
(***************************************************************************)
StormEvents == 52
StormTick == 30
StormHorizon == 60
StormEarly == 2

StormId(n) == "evt-" \o ToString(1000 + n)

\* every accepted event so far is a failed login, and fewer than the
\* brute-force threshold of them
FailedRun ==
  /\ Cardinality(DOMAIN accepted) < cfg.brute_threshold
  /\ \A id \in DOMAIN accepted : accepted[id].body.event.action = "login_failed"

StormKinds ==
  {Kind("process", "start", "alice", "10.0.0.1")}
    \cup (IF FailedRun THEN {Kind("auth", "login_failed", "alice", "10.0.0.1")}
                      ELSE {})

StormRequests ==
  IF Cardinality(DOMAIN accepted) < StormEvents
    THEN {SignedEvent(Event(StormId(Cardinality(DOMAIN accepted) + 1), "h1", now,
                            k.category, k.action, k.user, k.src_ip, 5)) :
            k \in StormKinds}
    ELSE {}

IngestStorm == \E r \in StormRequests : Ingest(r)

TickStorm ==
  /\ Cardinality(DOMAIN accepted) <= StormEarly
  /\ now + StormTick <= Epoch + StormHorizon
  /\ Advance(StormTick)

InitStorm ==
  /\ now = Epoch
  /\ secret = SharedKey
  /\ useSqlite = TRUE
  /\ cfg = DefaultCfg
  /\ seenMem = <<>>
  /\ idemTable = <<>>
  /\ counters = <<>>
  /\ events = <<>>
  /\ hostMem = <<>>
  /\ hostTable = <<>>
  /\ lastEmit = <<>>
  /\ alerts = <<>>
  /\ req = NoRequest
  /\ resp = NoResponse
  /\ call = NoCall
  /\ accepted = <<>>
  /\ sleeps = 0
  /\ _pos = <<>>
  /\ _risk = <<>>
  /\ tasks = <<>>

NextStorm == IngestStorm \/ TickStorm

SpecStorm == InitStorm /\ [][NextStorm]_vars

(***************************************************************************)
(* Specification of the host policy: events of two severities, one below   *)
(* the severity floor, against small correlator thresholds, a severity     *)
(* floor above zero and a cooldown of two clock steps.                     *)
(***************************************************************************)
PolicyIds == 4
PolicyTick == 30
PolicyHorizon == 60
PolicyFloor == 3
PolicyCooldown == 60

PolicySeverities == {PolicyFloor - 1, PolicyFloor + 2}

PolicyKinds ==
  {Kind("auth", "login_failed", "alice", "10.0.0.1"),
   Kind("auth", "login_failed", "bob", "10.0.0.1"),
   Kind("process", "start", "carol", None)}

PolicyRequests ==
  {SignedEvent(Event(id, "h1", now, k.category, k.action, k.user, k.src_ip, sev)) :
     id \in NextId(PolicyIds), k \in PolicyKinds, sev \in PolicySeverities}

IngestPolicy == \E r \in PolicyRequests : Ingest(r)

TickPolicy ==
  /\ now + PolicyTick <= Epoch + PolicyHorizon
  /\ Advance(PolicyTick)

PolicyCfg ==
  [FlowCfg EXCEPT !.severity_floor = PolicyFloor,
                  !.cooldown_seconds = PolicyCooldown]

InitPolicy ==
  /\ now = Epoch
  /\ secret = SharedKey
  /\ useSqlite \in BOOLEAN
  /\ cfg = PolicyCfg
  /\ seenMem = <<>>
  /\ idemTable = <<>>
  /\ counters = <<>>
  /\ events = <<>>
  /\ hostMem = <<>>
  /\ hostTable = <<>>
  /\ lastEmit = <<>>
  /\ alerts = <<>>
  /\ req = NoRequest
  /\ resp = NoResponse
  /\ call = NoCall
  /\ accepted = <<>>
  /\ sleeps = 0
  /\ _pos = <<>>
  /\ _risk = <<>>
  /\ tasks = <<>>

NextPolicy == IngestPolicy \/ TickPolicy

SpecPolicy == InitPolicy /\ [][NextPolicy]_vars

(***************************************************************************)
(* Specification of the brute-force scenario against the defaults: failed  *)
(* logins of alice on host h1 one second apart, and after the eighth more  *)
(* events, one to BruteMaxGap seconds or minutes later.                    *)
(***************************************************************************)
BruteEvents == 10
BruteMaxGap == 2
BruteWait == 60

\* the instant the event accepted last was received
LastAccepted == accepted[EventIds[Cardinality(DOMAIN accepted)]].at

BruteKinds ==
  {Kind("auth", "login_failed", "alice", "10.0.0.1")}
    \cup (IF Cardinality(DOMAIN accepted) >= brute_threshold
            THEN {Kind("process", "start", "carol", None)} ELSE {})

BruteRequests ==
  IF accepted = <<>> \/ LastAccepted < now
    THEN {SignedEvent(Event(id, "h1", now, k.category, k.action, k.user, k.src_ip, 5)) :
            id \in NextId(BruteEvents), k \in BruteKinds}
    ELSE {}

IngestBrute == \E r \in BruteRequests : Ingest(r)

\* one second passes
TickBrute ==
  /\ accepted # <<>>
  /\ now - LastAccepted
       < (IF Cardinality(DOMAIN accepted) < brute_threshold THEN 1 ELSE BruteMaxGap)
  /\ Advance(1)

\* a minute passes after the eighth failed login
WaitBrute ==
  /\ Cardinality(DOMAIN accepted) >= brute_threshold
  /\ now - LastAccepted < 2 * BruteWait
  /\ Advance(BruteWait)

InitBrute ==
  /\ now = Epoch
  /\ secret = SharedKey
  /\ useSqlite \in BOOLEAN
  /\ cfg = DefaultCfg
  /\ seenMem = <<>>
  /\ idemTable = <<>>
  /\ counters = <<>>
  /\ events = <<>>
  /\ hostMem = <<>>
  /\ hostTable = <<>>
  /\ lastEmit = <<>>
  /\ alerts = <<>>
  /\ req = NoRequest
  /\ resp = NoResponse
  /\ call = NoCall
  /\ accepted = <<>>
  /\ sleeps = 0
  /\ _pos = <<>>
  /\ _risk = <<>>
  /\ tasks = <<>>

NextBrute == IngestBrute \/ TickBrute \/ WaitBrute

SpecBrute == InitBrute /\ [][NextBrute]_vars

(***************************************************************************)
(* Specification of the alert deduper: failed logins that each fire the    *)
(* brute-force rule (threshold one), with and without user and source      *)
(* address, over more than one dedupe TTL.                                 *)
(***************************************************************************)
DedupeIds == 4
DedupeTick == 150
DedupeHorizon == 450
DedupeBruteThreshold == 1

DedupeKinds ==
  {Kind("auth", "login_failed", "alice", "10.0.0.1"),
   Kind("auth", "login_failed", None, None),
   Kind("auth", "login_failed", "", None)}

DedupeRequests ==
  {SignedEvent(Event(id, "h1", now, k.category, k.action, k.user, k.src_ip, 5)) :
     id \in NextId(DedupeIds), k \in DedupeKinds}

IngestDedupe == \E r \in DedupeRequests : Ingest(r)

TickDedupe ==
  /\ now + DedupeTick <= Epoch + DedupeHorizon
  /\ Advance(DedupeTick)

DedupeCfg == [DefaultCfg EXCEPT !.brute_threshold = DedupeBruteThreshold]

InitDedupe ==
  /\ now = Epoch
  /\ secret = SharedKey
  /\ useSqlite = TRUE
  /\ cfg = DedupeCfg
  /\ seenMem = <<>>
  /\ idemTable = <<>>
  /\ counters = <<>>
  /\ events = <<>>
  /\ hostMem = <<>>
  /\ hostTable = <<>>
  /\ lastEmit = <<>>
  /\ alerts = <<>>
  /\ req = NoRequest
  /\ resp = NoResponse
  /\ call = NoCall
  /\ accepted = <<>>
  /\ sleeps = 0
  /\ _pos = <<>>
  /\ _risk = <<>>
  /\ tasks = <<>>

NextDedupe == IngestDedupe \/ TickDedupe

SpecDedupe == InitDedupe /\ [][NextDedupe]_vars

(***************************************************************************)
(* Specification of the handler with files that cannot be appended to:     *)
(* AlertSinkJSONL.emit and AuditLogger.write open their file for append    *)
(* and write one line, and an OSError of either is caught nowhere, so it   *)
(* leaves the handler and the server answers 500.                          *)
(***************************************************************************)
IoIds == 2
IoTick == 150
IoHorizon == 150

Files == {"audit.jsonl", "alerts.jsonl"}

\* the answer of the server to an exception that leaves the handler
InternalServerError(st, steps, nowv) ==
  Reject(st, 500, "Internal Server Error", steps, <<>>, nowv)

\* what is left of a run of the handler, out, from the state st when
\* appending to the files of broken raises OSError: the run up to the first
\* append that fails
Aborted(out, st, nowv, broken) ==
  IF Len(out.st.alerts) > Len(st.alerts) /\ broken # {}
    THEN LET first == out.st.alerts[Len(st.alerts) + 1]
             deduped == [out.st EXCEPT
                           !.alerts = st.alerts,
                           !.lastEmit = should_emit(st.lastEmit, first.rule_id,
                                          first.host, first.user, first.src_ip,
                                          cfg.alert_ttl, nowv).last_emit]
         IN  IF "alerts.jsonl" \in broken
               THEN InternalServerError(deduped, out.resp.steps, nowv)
               ELSE InternalServerError(
                      [deduped EXCEPT !.alerts = Append(st.alerts, first)],
                      out.resp.steps, nowv)
  ELSE IF out.resp.audit # <<>> /\ "audit.jsonl" \in broken
    THEN InternalServerError(out.st, out.resp.steps, nowv)
  ELSE out

\* the handler with the files of broken failing
Handle_io(r, nowv, broken) ==
  CHOOSE res \in {Aborted(out, Current, nowv, broken) : out \in {Handle(r, nowv)}} :
    TRUE

IoRequests ==
  {SignedEvent(Event(id, "h1", now, k.category, k.action, k.user, k.src_ip, 5)) :
     id \in NextId(IoIds), k \in DedupeKinds}

IngestIo ==
  \E r \in IoRequests \cup Resent, broken \in SUBSET Files :
    \E out \in {Handle_io(r, now, broken)} :
      /\ req' = r
      /\ resp' = out.resp
      /\ seenMem' = out.st.seenMem
      /\ idemTable' = out.st.idemTable
      /\ counters' = out.st.counters
      /\ events' = out.st.events
      /\ hostMem' = out.st.hostMem
      /\ hostTable' = out.st.hostTable
      /\ lastEmit' = out.st.lastEmit
      /\ alerts' = out.st.alerts
      /\ accepted' = IF out.resp.status = 200
                        THEN Put(accepted, r.body.event.event_id,
                                 [at |-> now, body |-> r.body,
                                  retry |-> resp.status = 429 /\ req.body = r.body])
                        ELSE accepted
      /\ call' = [op |-> "ingest", key |-> broken, ok |-> out.resp.status # 500,
                  reason |-> None, at |-> now, before |-> <<>>]
      /\ UNCHANGED <<now, secret, useSqlite, cfg, sleeps, _pos, _risk, tasks>>

TickIo ==
  /\ now + IoTick <= Epoch + IoHorizon
  /\ Advance(IoTick)

NextIo == IngestIo \/ TickIo

SpecIo == InitDedupe /\ [][NextIo]_vars

(***************************************************************************)
(* Specification of the host policy across process restarts: the module    *)
(* level singletons of main.py are built anew, the database file and the   *)
(* two JSONL files stay.                                                   *)
(***************************************************************************)
RestartIds == 4
MaxRestarts == 1

RestartKinds ==
  {Kind("auth", "login_failed", "alice", "10.0.0.1"),
   Kind("process", "start", "carol", None)}

RestartRequests ==
  {SignedEvent(Event(id, "h1", now, k.category, k.action, k.user, k.src_ip, sev)) :
     id \in NextId(RestartIds), k \in RestartKinds, sev \in PolicySeverities}

IngestRestart == \E r \in RestartRequests : Ingest(r)

\* the host states the engine acts on, by host
HostStates(table, mem) ==
  [h \in {"h1", "h2"} |-> load_state(useSqlite, table, mem, h)]

\* variant: the process comes up with a new database file
Restart_new_database ==
  /\ Len(call.before) < MaxRestarts
  /\ seenMem' = <<>>
  /\ counters' = <<>>
  /\ events' = <<>>
  /\ hostMem' = <<>>
  /\ lastEmit' = <<>>
  /\ idemTable' = <<>>
  /\ hostTable' = <<>>
  /\ call' = [op |-> "restart",
              key |-> None, ok |-> TRUE, reason |-> None, at |-> now,
              before |-> Append(call.before, HostStates(hostTable, hostMem))]
  /\ UNCHANGED <<now, secret, useSqlite, cfg, alerts, req, resp, accepted,
                 sleeps, _pos, _risk, tasks>>

\* the process is stopped and started: every singleton is constructed again,
\* SQLiteStore creates its tables only if they do not exist
Restart ==
  /\ Len(call.before) < MaxRestarts
  /\ seenMem' = <<>>
  /\ counters' = <<>>
  /\ events' = <<>>
  /\ hostMem' = <<>>
  /\ lastEmit' = <<>>
  /\ call' = [op |-> "restart",
              key |-> None, ok |-> TRUE, reason |-> None, at |-> now,
              before |-> Append(call.before, HostStates(hostTable, hostMem))]
  /\ UNCHANGED <<now, secret, useSqlite, cfg, idemTable, hostTable, alerts,
                 req, resp, accepted, sleeps, _pos, _risk, tasks>>

NextRestart == IngestRestart \/ TickPolicy \/ Restart

SpecRestart == InitPolicy /\ [][NextRestart]_vars

(***************************************************************************)
(* Specification of IdempotencyStore by itself: two instances, one built   *)
(* without a persistent store (its dict is seenMem) and one built with     *)
(* one (its table is idemTable), receive the same seen and mark calls.     *)
(***************************************************************************)
IdemIds == 2
IdemTtl == 60
IdemTick == 30
IdemHorizon == 150

IdemKeys == {EventIds[i] : i \in 1..IdemIds}

\* IdempotencyStore.seen(event_id): the answer and the store after the call
store_seen(sqlite, table, mem, event_id, ttl, nowv) ==
  IF sqlite
    THEN [seen |-> idempo_seen(table, event_id), table |-> table, mem |-> mem]
    ELSE LET g == _gc(mem, ttl, nowv)
         IN  [seen |-> event_id \in DOMAIN g, table |-> table, mem |-> g]

\* IdempotencyStore.mark(event_id)
store_mark(sqlite, table, mem, event_id, nowv) ==
  IF sqlite
    THEN [table |-> idempo_mark(table, event_id, nowv), mem |-> mem]
    ELSE [table |-> table, mem |-> Put(mem, event_id, nowv)]

\* seen(id) on both instances; ok is the answer without a persistent
\* store, reason the answer with one
SeenBoth ==
  /\ \E id \in IdemKeys :
       \E a \in {store_seen(FALSE, <<>>, seenMem, id, cfg.idempo_ttl, now)},
          b \in {store_seen(TRUE, idemTable, <<>>, id, cfg.idempo_ttl, now)} :
          /\ seenMem' = a.mem
          /\ idemTable' = b.table
          /\ call' = [op |-> "seen", key |-> id, ok |-> a.seen,
                      reason |-> b.seen, at |-> now, before |-> <<>>]
  /\ UNCHANGED <<now, secret, useSqlite, cfg, counters, events, hostMem,
                 hostTable, lastEmit, alerts, req, resp, accepted, sleeps, _pos, _risk, tasks>>

\* mark(id) on both instances; accepted keeps the instants of the first and
\* of the latest mark of each id
MarkBoth ==
  /\ \E id \in IdemKeys :
       \E a \in {store_mark(FALSE, <<>>, seenMem, id, now)},
          b \in {store_mark(TRUE, idemTable, <<>>, id, now)} :
          /\ seenMem' = a.mem
          /\ idemTable' = b.table
          /\ accepted' = Put(accepted, id,
                             [first |-> IF id \in DOMAIN accepted
                                          THEN accepted[id].first ELSE now,
                              at |-> now])
          /\ call' = [op |-> "mark", key |-> id, ok |-> TRUE,
                      reason |-> TRUE, at |-> now, before |-> <<>>]
  /\ UNCHANGED <<now, secret, useSqlite, cfg, counters, events, hostMem,
                 hostTable, lastEmit, alerts, req, resp, sleeps, _pos, _risk, tasks>>

TickIdem ==
  /\ now + IdemTick <= Epoch + IdemHorizon
  /\ call' = call
  /\ Advance(IdemTick)

InitIdem ==
  /\ now = Epoch
  /\ secret = SharedKey
  /\ useSqlite = TRUE
  /\ cfg = [DefaultCfg EXCEPT !.idempo_ttl = IdemTtl]
  /\ seenMem = <<>>
  /\ idemTable = <<>>
  /\ counters = <<>>
  /\ events = <<>>
  /\ hostMem = <<>>
  /\ hostTable = <<>>
  /\ lastEmit = <<>>
  /\ alerts = <<>>
  /\ req = NoRequest
  /\ resp = NoResponse
  /\ call = [NoCall EXCEPT !.reason = FALSE]
  /\ accepted = <<>>
  /\ sleeps = 0
  /\ _pos = <<>>
  /\ _risk = <<>>
  /\ tasks = <<>>

NextIdem == SeenBoth \/ MarkBoth \/ TickIdem

SpecIdem == InitIdem /\ [][NextIdem]_vars

(***************************************************************************)
(* Specification of the rolling store by itself: add and get_recent called *)
(* directly for two hosts with records stamped by the clock, the caller    *)
(* holding the list returned last and free to change it.  A list is an     *)
(* object: ref = <<>> for a list of its own with the items it holds, and   *)
(* ref = <<host>> for the deque of that host inside the store.             *)
(***************************************************************************)
StoreAdds == 3
StoreWindow == 60
StoreTick == 30
StoreHorizon == 120

StoreHosts == {"h1", "h2"}

\* variant: the deque of the host itself is handed out
list_alias(host, q) == [ref |-> <<host>>, items |-> q]

\* list(q): a new list with the items of q
list(host, q) == [ref |-> <<>>, items |-> q]

NoList == [ref |-> <<>>, items |-> <<>>]

\* the items of a list object, given the store
ItemsOf(l, events_) ==
  IF l.ref = <<>> THEN l.items
  ELSE IF l.ref[1] \in DOMAIN events_ THEN events_[l.ref[1]] ELSE <<>>

StoreRecord(id, host) ==
  [event_id |-> id, source |-> "sensor", host |-> host, category |-> "auth",
   action |-> "login_failed", severity |-> 5, timestamp_utc |-> now,
   received_time_utc |-> now, user |-> None, src_ip |-> None]

QueueOf(events_, host) == IF host \in DOMAIN events_ THEN events_[host] ELSE <<>>

\* store.add(record); the caller keeps the list it holds
StoreAdd(host) ==
  /\ \E id \in NextId(StoreAdds) :
       /\ events' = add(events, StoreRecord(id, host), cfg.store_window)
       /\ accepted' = Put(accepted, id, [at |-> now, body |-> StoreRecord(id, host),
                                         retry |-> FALSE])
       /\ call' = [op |-> "add", key |-> host, ok |-> TRUE, reason |-> id,
                   at |-> now, before |-> QueueOf(events, host),
                   returned |-> call.returned]
  /\ UNCHANGED <<now, secret, useSqlite, cfg, seenMem, idemTable, counters,
                 hostMem, hostTable, lastEmit, alerts, req, resp, sleeps, _pos, _risk, tasks>>

\* store.get_recent(host); the caller holds the list returned
StoreGetRecent(host) ==
  /\ \E got \in {get_recent(events, host, now, cfg.store_window)} :
       /\ events' = got.events
       /\ call' = [op |-> "get_recent", key |-> host, ok |-> TRUE,
                   reason |-> None, at |-> now,
                   before |-> QueueOf(events, host),
                   returned |-> list(host, got.recent)]
  /\ UNCHANGED <<now, secret, useSqlite, cfg, seenMem, idemTable, counters,
                 hostMem, hostTable, lastEmit, alerts, req, resp, accepted,
                 sleeps, _pos, _risk, tasks>>

\* the caller removes the first item of the list it holds: del recent[0]
CallerMutates ==
  /\ call.op \in {"get_recent", "add", "del"}
  /\ ItemsOf(call.returned, events) # <<>>
  /\ IF call.returned.ref = <<>>
       THEN /\ events' = events
            /\ call' = [call EXCEPT !.op = "del",
                                    !.returned.items = Tail(call.returned.items)]
       ELSE /\ events' = Put(events, call.returned.ref[1],
                             Tail(events[call.returned.ref[1]]))
            /\ call' = [call EXCEPT !.op = "del"]
  /\ UNCHANGED <<now, secret, useSqlite, cfg, seenMem, idemTable, counters,
                 hostMem, hostTable, lastEmit, alerts, req, resp, accepted,
                 sleeps, _pos, _risk, tasks>>

StoreAddAny == \E host \in StoreHosts : StoreAdd(host)

StoreGetRecentAny == \E host \in StoreHosts : StoreGetRecent(host)

TickStore ==
  /\ now + StoreTick <= Epoch + StoreHorizon
  /\ call' = call
  /\ Advance(StoreTick)

InitStore ==
  /\ now = Epoch
  /\ secret = SharedKey
  /\ useSqlite = TRUE
  /\ cfg = [DefaultCfg EXCEPT !.store_window = StoreWindow]
  /\ seenMem = <<>>
  /\ idemTable = <<>>
  /\ counters = <<>>
  /\ events = <<>>
  /\ hostMem = <<>>
  /\ hostTable = <<>>
  /\ lastEmit = <<>>
  /\ alerts = <<>>
  /\ req = NoRequest
  /\ resp = NoResponse
  /\ call = [op |-> None, key |-> None, ok |-> FALSE, reason |-> None,
             at |-> 0, before |-> <<>>, returned |-> NoList]
  /\ accepted = <<>>
  /\ sleeps = 0
  /\ _pos = <<>>
  /\ _risk = <<>>
  /\ tasks = <<>>

NextStore == StoreAddAny \/ StoreGetRecentAny \/ CallerMutates \/ TickStore

SpecStore == InitStore /\ [][NextStore]_vars

(***************************************************************************)
(* Specification of the two decision layers called directly with the       *)
(* EventRecord the gateway builds: Correlator.evaluate with the store's    *)
(* key expression as store.py writes it, and the host policy with any      *)
(* correlation verdict.  A call either returns or raises.                  *)
(***************************************************************************)
LayerIds == 2
LayerTick == 30
LayerHorizon == 60

\* the fields of the dataclass EventRecord
EventRecordFields ==
  {"event_id", "source", "host", "category", "action", "severity",
   "timestamp_utc", "received_time_utc", "user", "src_ip"}

\* record.name: <<value>>, or <<>> when the attribute does not exist
getattr(record, name) ==
  IF name \in DOMAIN record THEN <<record[name]>> ELSE <<>>

\* key = (record.strategy_id, record.symbol): <<key>>, or <<>> when an
\* attribute read raises AttributeError
Key(record) ==
  IF getattr(record, "strategy_id") = <<>> \/ getattr(record, "symbol") = <<>>
    THEN <<>>
    ELSE <<<<record.strategy_id, record.symbol>>>>

\* correlator.evaluate(record) as a call: raises when store.add raises
evaluate_call(c, events_, record, wallnow) ==
  IF Key(record) = <<>>
    THEN [raised |-> TRUE, error |-> "AttributeError", decision |-> None,
          events |-> events_]
    ELSE LET out == evaluate(c, events_, record, wallnow)
         IN  [raised |-> FALSE, error |-> None, decision |-> out.decision,
              events |-> out.events]

LayerRecord(id, host, k) ==
  [event_id |-> id, source |-> "sensor", host |-> host,
   category |-> k.category, action |-> k.action, severity |-> 5,
   timestamp_utc |-> now, received_time_utc |-> now, user |-> k.user,
   src_ip |-> k.src_ip]

LayerKinds ==
  {Kind("auth", "login_failed", "alice", "10.0.0.1"),
   Kind("process", "start", "carol", None)}

LayerRecords ==
  {LayerRecord(EventIds[i], host, k) :
     i \in 1..LayerIds, host \in {"h1", "h2"}, k \in LayerKinds}

Verdicts ==
  {[decision |-> "ALLOW", reasons |-> <<>>],
   [decision |-> "THROTTLE", reasons |-> <<"brute_force_suspected">>],
   [decision |-> "BLOCK", reasons |-> <<"ingest_storm", "brute_force_suspected">>],
   [decision |-> "BLOCK", reasons |-> <<"ingest_storm", "password_spray_suspected">>]}

CorrelatorEvaluate ==
  /\ \E record \in LayerRecords :
       \E out \in {evaluate_call(cfg, events, record, now)} :
          /\ events' = out.events
          /\ call' = [op |-> "correlator.evaluate", key |-> record.event_id,
                      ok |-> ~out.raised,
                      reason |-> IF out.raised THEN out.error ELSE out.decision,
                      at |-> now, before |-> <<record>>]
  /\ UNCHANGED <<now, secret, useSqlite, cfg, seenMem, idemTable, counters,
                 hostMem, hostTable, lastEmit, alerts, req, resp, accepted,
                 sleeps, _pos, _risk, tasks>>

PolicyEvaluate ==
  /\ \E record \in LayerRecords, corr \in Verdicts :
       \E out \in {policy_evaluate(cfg, useSqlite, hostTable, hostMem, record,
                                   corr, now)} :
          /\ hostTable' = out.table
          /\ hostMem' = out.mem
          /\ call' = [op |-> "policy.evaluate", key |-> record.event_id,
                      ok |-> TRUE, reason |-> out.decision, at |-> now,
                      before |-> <<record>>]
  /\ UNCHANGED <<now, secret, useSqlite, cfg, seenMem, idemTable, counters,
                 events, lastEmit, alerts, req, resp, accepted, sleeps, _pos, _risk, tasks>>

TickLayers ==
  /\ now + LayerTick <= Epoch + LayerHorizon
  /\ Advance(LayerTick)

InitLayers ==
  /\ now = Epoch
  /\ secret = SharedKey
  /\ useSqlite \in BOOLEAN
  /\ cfg = FlowCfg
  /\ seenMem = <<>>
  /\ idemTable = <<>>
  /\ counters = <<>>
  /\ events = <<>>
  /\ hostMem = <<>>
  /\ hostTable = <<>>
  /\ lastEmit = <<>>
  /\ alerts = <<>>
  /\ req = NoRequest
  /\ resp = NoResponse
  /\ call = NoCall
  /\ accepted = <<>>
  /\ sleeps = 0
  /\ _pos = <<>>
  /\ _risk = <<>>
  /\ tasks = <<>>

NextLayers == CorrelatorEvaluate \/ PolicyEvaluate \/ TickLayers

SpecLayers == InitLayers /\ [][NextLayers]_vars

(***************************************************************************)
(* engine/portfolio.py : PaperPortfolio                                    *)
(* _pos: key -> Position, _risk: key -> SymbolDailyRisk, key = the pair    *)
(* (strategy_id, symbol); an Optional is <<>> or <<v>>; prices and PnL are *)
(* whole numbers.                                                          *)
(***************************************************************************)
\* datetime.date(): the UTC day of an instant
date(t) == t \div (24 * 3600)

\* SymbolDailyRisk(day=today, realised_pnl=0.0, ...): the daily state anew
NewDailyRisk(today) ==
  [day |-> today, realised_pnl |-> 0, peak_equity |-> 0, equity |-> 0,
   max_drawdown |-> 0, kill_switch |-> FALSE, cooldown_until_utc |-> <<>>]

\* the risk map after get_risk(key); the record returned is the one at key
get_risk(risk, key, nowv) ==
  IF key \notin DOMAIN risk \/ risk[key].day # date(nowv)
    THEN Put(risk, key, NewDailyRisk(date(nowv)))
    ELSE risk

get_position(pos, key) == IF key \in DOMAIN pos THEN <<pos[key]>> ELSE <<>>

open_position(pos, key, side, qty, price, nowv) ==
  Put(pos, key, [side |-> side, qty |-> qty, entry_price |-> price,
                 entry_time_utc |-> nowv])

Max(a, b) == IF a >= b THEN a ELSE b
Min(a, b) == IF a <= b THEN a ELSE b

\* close_position(key, exit_price): the PnL returned and both maps after it
close_position(pos, risk, key, exit_price, nowv) ==
  IF key \notin DOMAIN pos THEN [pnl |-> 0, pos |-> pos, risk |-> risk]
  ELSE
    LET p == pos[key]
        pnl == IF p.side = "long" THEN (exit_price - p.entry_price) * p.qty
               ELSE (p.entry_price - exit_price) * p.qty
        risk1 == get_risk(risk, key, nowv)
        realised == risk1[key].realised_pnl + pnl
        peak == Max(risk1[key].peak_equity, realised)
    IN  [pnl |-> pnl,
         pos |-> Drop(pos, {key}),
         risk |-> Put(risk1, key,
                      [risk1[key] EXCEPT
                         !.realised_pnl = realised,
                         !.equity = realised,
                         !.peak_equity = peak,
                         !.max_drawdown = Min(@, realised - peak)])]

(***************************************************************************)
(* engine/policy.py : RiskPolicyEngine                                     *)
(***************************************************************************)
\* the defaults of the constructor
RiskDefaults ==
  [max_daily_loss |-> -200, cooldown_after_loss |-> 300, default_qty |-> 1]

PolicyDecision(decision, reason, pos, risk) ==
  [decision |-> decision, reasons |-> <<reason>>, pos |-> pos, risk |-> risk]

\* RiskPolicyEngine.evaluate(record, corr, entry_price): the decision and the
\* portfolio after the call; record carries strategy_id, symbol and side
risk_evaluate(c, pos, risk, record, corr, entry_price, nowv) ==
  LET key == <<record.strategy_id, record.symbol>>
      risk0 == get_risk(risk, key, nowv)
      r == risk0[key]
  IN  IF r.kill_switch
        THEN PolicyDecision("BLOCK", "kill_switch_active", pos, risk0)
      ELSE IF r.cooldown_until_utc # <<>> /\ nowv < r.cooldown_until_utc[1]
        THEN PolicyDecision("BLOCK", "cooldown_active", pos, risk0)
      ELSE IF r.realised_pnl <= c.max_daily_loss
        THEN PolicyDecision("BLOCK", "max_daily_loss_exceeded", pos,
                            Put(risk0, key, [r EXCEPT !.kill_switch = TRUE]))
      ELSE IF corr.decision = "BLOCK"
        THEN PolicyDecision("BLOCK", "correlation_block", pos, risk0)
      ELSE IF entry_price = <<>>
        THEN PolicyDecision("THROTTLE", "missing_entry_price", pos, risk0)
      ELSE IF get_position(pos, key) = <<>>
        THEN IF corr.decision # "ALLOW"
               THEN PolicyDecision("THROTTLE", "correlation_throttle", pos, risk0)
               ELSE PolicyDecision("ALLOW", "opened_position",
                      open_position(pos, key, record.side, c.default_qty,
                                    entry_price[1], nowv), risk0)
      ELSE IF pos[key].side = record.side
        THEN PolicyDecision("THROTTLE", "position_already_open_same_side",
                            pos, risk0)
      ELSE
        LET closed == close_position(pos, risk0, key, entry_price[1], nowv)
        IN  IF closed.pnl < 0
              THEN PolicyDecision("BLOCK", "loss_cooldown_triggered", closed.pos,
                     Put(closed.risk, key,
                         [closed.risk[key] EXCEPT !.cooldown_until_utc =
                            <<nowv + c.cooldown_after_loss>>]))
            ELSE IF corr.decision = "ALLOW"
              THEN PolicyDecision("ALLOW", "closed_then_opened",
                     open_position(closed.pos, key, record.side, c.default_qty,
                                   entry_price[1], nowv), closed.risk)
            ELSE PolicyDecision("THROTTLE", "closed_position_but_throttled",
                                closed.pos, closed.risk)

(***************************************************************************)
(* Specification of the risk policy by itself: signals of both sides for   *)
(* two strategies, with and without a price, at prices that close at a     *)
(* profit and at a loss, on a clock that passes midnight UTC.              *)
(***************************************************************************)
RiskCalls == 3
RiskTick == 150
RiskHorizon == 450

\* the first midnight UTC after Epoch
Midnight == (date(Epoch) + 1) * 24 * 3600

RiskStart == Midnight - 2 * RiskTick

Strategies == {"policy_cooldown_test_v1", "policy_killswitch_test_v1"}

\* entry_hint of the signals: None or a price
Prices == {<<>>, <<1990>>, <<2000>>}

Signal(id, strategy_id, side) ==
  [event_id |-> id, strategy_id |-> strategy_id, symbol |-> "ETHUSD",
   side |-> side]

RiskEvaluate ==
  /\ call.n < RiskCalls
  /\ \E strategy_id \in Strategies, side \in {"long", "short"},
        entry_price \in Prices, decision \in {"ALLOW", "THROTTLE", "BLOCK"} :
       \E out \in {risk_evaluate(RiskDefaults, _pos, _risk,
                                 Signal(EventIds[call.n + 1], strategy_id, side),
                                 [decision |-> decision, reasons |-> <<>>],
                                 entry_price, now)} :
          /\ _pos' = out.pos
          /\ _risk' = out.risk
          /\ call' = [op |-> "risk.evaluate",
                      key |-> <<strategy_id, "ETHUSD">>,
                      ok |-> TRUE, reason |-> out.reasons[1], at |-> now,
                      before |-> <<side, entry_price>>,
                      decision |-> out.decision, n |-> call.n + 1]
  /\ UNCHANGED <<now, secret, useSqlite, cfg, seenMem, idemTable, counters,
                 events, hostMem, hostTable, lastEmit, alerts, req, resp,
                 accepted, sleeps, tasks>>

TickRisk ==
  /\ now + RiskTick <= RiskStart + RiskHorizon
  /\ Advance(RiskTick)

InitRisk ==
  /\ now = RiskStart
  /\ secret = SharedKey
  /\ useSqlite = FALSE
  /\ cfg = DefaultCfg
  /\ seenMem = <<>>
  /\ idemTable = <<>>
  /\ counters = <<>>
  /\ events = <<>>
  /\ hostMem = <<>>
  /\ hostTable = <<>>
  /\ lastEmit = <<>>
  /\ alerts = <<>>
  /\ req = NoRequest
  /\ resp = NoResponse
  /\ call = [op |-> None, key |-> <<>>, ok |-> FALSE, reason |-> None,
             at |-> 0, before |-> <<>>, decision |-> None, n |-> 0]
  /\ accepted = <<>>
  /\ sleeps = 0
  /\ _pos = <<>>
  /\ _risk = <<>>
  /\ tasks = <<>>

NextRisk == RiskEvaluate \/ TickRisk

SpecRisk == InitRisk /\ [][NextRisk]_vars

(***************************************************************************)
(* Specification of requests in flight at once.  ingest is a coroutine on  *)
(* one event loop: it is suspended only in `await request.body()`          *)
(* (main.py:91), and the rest of the handler has no await, so it runs to   *)
(* its response before any other coroutine is resumed.                     *)
(***************************************************************************)
\* coroutines of ingest
Clients == 2
\* event ids the clients send
ConcIds == 2
ConcTick == 60
ConcHorizon == 120

Coroutines == 1..Clients

Idle == [pc |-> "idle", raw |-> NoRequest, status |-> 0, steps |-> <<>>,
         with |-> {}]

ConcRequests ==
  {SignedEvent(Event(EventIds[i], "h1", now, "auth", "login_failed", "alice",
                     "10.0.0.1", 5)) : i \in 1..ConcIds}
  \cup {[hdr |-> Signed(GarbageBody), body |-> GarbageBody]}

\* main.py:89-91: the coroutine has the body of its request and waits for the
\* event loop to resume it
Receive(p, r) ==
  /\ tasks[p].pc = "idle"
  /\ tasks' = [tasks EXCEPT ![p] = [Idle EXCEPT !.pc = "body", !.raw = r]]
  /\ UNCHANGED <<now, secret, useSqlite, cfg, seenMem, idemTable, counters,
                 events, hostMem, hostTable, lastEmit, alerts, req, resp, call,
                 accepted, sleeps, _pos, _risk>>

\* main.py:92-310: the event loop resumes the coroutine, which runs to its
\* response; `with` records the coroutines that held a body meanwhile
Resume(p) ==
  /\ tasks[p].pc = "body"
  /\ Serve(tasks[p].raw)
  /\ tasks' = [tasks EXCEPT ![p] =
                 [@ EXCEPT !.pc = "done",
                           !.status = resp'.status,
                           !.steps = resp'.steps,
                           !.with = {q \in Coroutines \ {p} :
                                       tasks[q].pc = "body"}]]

ReceiveConc == \E p \in Coroutines : \E r \in ConcRequests : Receive(p, r)

ResumeConc == \E p \in Coroutines : Resume(p)

TickConc ==
  /\ now + ConcTick <= Epoch + ConcHorizon
  /\ Advance(ConcTick)

InitConc ==
  /\ now = Epoch
  /\ secret = SharedKey
  /\ useSqlite \in BOOLEAN
  /\ cfg = DefaultCfg
  /\ seenMem = <<>>
  /\ idemTable = <<>>
  /\ counters = <<>>
  /\ events = <<>>
  /\ hostMem = <<>>
  /\ hostTable = <<>>
  /\ lastEmit = <<>>
  /\ alerts = <<>>
  /\ req = NoRequest
  /\ resp = NoResponse
  /\ call = NoCall
  /\ accepted = <<>>
  /\ sleeps = 0
  /\ _pos = <<>>
  /\ _risk = <<>>
  /\ tasks = [p \in Coroutines |-> Idle]

NextConc == ReceiveConc \/ ResumeConc \/ TickConc

SpecConc == InitConc /\ [][NextConc]_vars

(***************************************************************************)
(* Specification of the alert deduper called directly, with field values   *)
(* the schema admits: any characters, '|' included.                        *)
(***************************************************************************)
\* calls of should_emit
KeyCalls == 3
KeyTick == 150
KeyHorizon == 300

KeyRules == {"BRUTE_FORCE_V1"}
KeyHosts == {"h1", "h1|x"}
KeyUsers == {None, "x", "x|"}
KeySrcIps == {None, "|"}

\* (rule_id, host, user_or_empty, src_ip_or_empty)
KeyTuple(rule_id, host, user, src_ip) ==
  <<rule_id, host, OrEmpty(user), OrEmpty(src_ip)>>

KeyTuples ==
  {KeyTuple(rule_id, host, user, src_ip) :
     rule_id \in KeyRules, host \in KeyHosts, user \in KeyUsers,
     src_ip \in KeySrcIps}

ShouldEmit ==
  /\ call.n < KeyCalls
  /\ \E rule_id \in KeyRules, host \in KeyHosts, user \in KeyUsers,
        src_ip \in KeySrcIps :
       \E se \in {should_emit(lastEmit, rule_id, host, user, src_ip,
                              cfg.alert_ttl, now)} :
          /\ lastEmit' = se.last_emit
          /\ call' = [op |-> "alert.should_emit",
                      key |-> KeyTuple(rule_id, host, user, src_ip),
                      ok |-> se.emit, reason |-> None, at |-> now,
                      before |-> <<>>, n |-> call.n + 1]
  /\ UNCHANGED <<now, secret, useSqlite, cfg, seenMem, idemTable, counters,
                 events, hostMem, hostTable, alerts, req, resp, accepted,
                 sleeps, _pos, _risk, tasks>>

TickKeys ==
  /\ now + KeyTick <= Epoch + KeyHorizon
  /\ Advance(KeyTick)

InitKeys ==
  /\ now = Epoch
  /\ secret = SharedKey
  /\ useSqlite = FALSE
  /\ cfg = DefaultCfg
  /\ seenMem = <<>>
  /\ idemTable = <<>>
  /\ counters = <<>>
  /\ events = <<>>
  /\ hostMem = <<>>
  /\ hostTable = <<>>
  /\ lastEmit = <<>>
  /\ alerts = <<>>
  /\ req = NoRequest
  /\ resp = NoResponse
  /\ call = [op |-> None, key |-> <<>>, ok |-> FALSE, reason |-> None,
             at |-> 0, before |-> <<>>, n |-> 0]
  /\ accepted = <<>>
  /\ sleeps = 0
  /\ _pos = <<>>
  /\ _risk = <<>>
  /\ tasks = <<>>

NextKeys == ShouldEmit \/ TickKeys

SpecKeys == InitKeys /\ [][NextKeys]_vars

(***************************************************************************)
(* Specification of the correlator and its store called directly with      *)
(* records of two hosts.                                                   *)
(***************************************************************************)
\* calls of evaluate and get_recent
HostCalls == 4
HostTick == 130
HostHorizon == 130

Hosts == {"h1", "h2"}

HostKinds ==
  {Kind("auth", "login_failed", "alice", "10.0.0.1"),
   Kind("auth", "login_failed", "bob", "10.0.0.1"),
   Kind("auth", "login_success", "alice", "10.0.0.1")}

\* what the caller of evaluate gets
Verdict(out) ==
  [decision |-> out.decision, reasons |-> out.reasons, context |-> out.context]

NoVerdict == [decision |-> None, reasons |-> <<>>, context |-> <<>>]

\* correlator.evaluate(record) for a record stamped with the clock
HostEvaluate ==
  /\ call.n < HostCalls
  /\ \E host \in Hosts, k \in HostKinds :
       \E out \in {evaluate(cfg, events,
                            LayerRecord(EventIds[call.n + 1], host, k), now)} :
          /\ events' = out.events
          /\ call' = [op |-> "correlator.evaluate", key |-> host, ok |-> TRUE,
                      reason |-> None, at |-> now,
                      before |-> <<LayerRecord(EventIds[call.n + 1], host, k)>>,
                      decision |-> Verdict(out), returned |-> <<>>,
                      n |-> call.n + 1]
  /\ UNCHANGED <<now, secret, useSqlite, cfg, seenMem, idemTable, counters,
                 hostMem, hostTable, lastEmit, alerts, req, resp, accepted,
                 sleeps, _pos, _risk, tasks>>

\* store.get_recent(host)
HostGetRecent ==
  /\ call.n < HostCalls
  /\ \E host \in Hosts :
       \E got \in {get_recent(events, host, now, cfg.store_window)} :
          /\ events' = got.events
          /\ call' = [op |-> "get_recent", key |-> host, ok |-> TRUE,
                      reason |-> None, at |-> now, before |-> <<>>,
                      decision |-> NoVerdict, returned |-> got.recent,
                      n |-> call.n + 1]
  /\ UNCHANGED <<now, secret, useSqlite, cfg, seenMem, idemTable, counters,
                 hostMem, hostTable, lastEmit, alerts, req, resp, accepted,
                 sleeps, _pos, _risk, tasks>>

TickHosts ==
  /\ now + HostTick <= Epoch + HostHorizon
  /\ Advance(HostTick)

InitHosts ==
  /\ now = Epoch
  /\ secret = SharedKey
  /\ useSqlite = FALSE
  /\ cfg = RulesCfg
  /\ seenMem = <<>>
  /\ idemTable = <<>>
  /\ counters = <<>>
  /\ events = <<>>
  /\ hostMem = <<>>
  /\ hostTable = <<>>
  /\ lastEmit = <<>>
  /\ alerts = <<>>
  /\ req = NoRequest
  /\ resp = NoResponse
  /\ call = [op |-> None, key |-> None, ok |-> FALSE, reason |-> None,
             at |-> 0, before |-> <<>>, decision |-> NoVerdict,
             returned |-> <<>>, n |-> 0]
  /\ accepted = <<>>
  /\ sleeps = 0
  /\ _pos = <<>>
  /\ _risk = <<>>
  /\ tasks = <<>>

NextHosts == HostEvaluate \/ HostGetRecent \/ TickHosts

SpecHosts == InitHosts /\ [][NextHosts]_vars

TypeOK == resp.status \in {0, 200, 400, 401, 409, 429, 500}

(***************************************************************************)
(* Vocabulary of the properties                                            *)
(***************************************************************************)
\* the step taken is a run of the /ingest handler (the clock stands still)
Handled == now' = now

HeaderMissing(r) == r.hdr.kind \in {"none", "empty"}
FormatBad(r) == r.hdr.kind = "text" /\ r.hdr.prefix # "sha256="
MacBad(r) ==
  /\ r.hdr.kind = "text"
  /\ r.hdr.prefix = "sha256="
  /\ (r.hdr.mac.key # secret \/ r.hdr.mac.msg # r.body)

\* signature verification runs and fails
SigFails(r) == HeaderMissing(r) \/ (secret # "" /\ (FormatBad(r) \/ MacBad(r)))

\* a correctly signed request carrying a schema-valid event
ValidEvent(r) ==
  /\ secret # ""
  /\ ~HeaderMissing(r) /\ ~FormatBad(r) /\ ~MacBad(r)
  /\ r.body.kind = "event"

EventOf(r) == r.body.event

TooOld(r, t) == EventOf(r).timestamp_utc < t - cfg.replay_window
TooNew(r, t) == EventOf(r).timestamp_utc > t + cfg.replay_window
OutsideReplayWindow(r, t) == TooOld(r, t) \/ TooNew(r, t)

\* event_id has a live idempotency mark at instant t
RecordedIn(table, mem, id, t) ==
  IF useSqlite THEN id \in DOMAIN table
  ELSE id \in DOMAIN mem /\ mem[id] >= t - cfg.idempo_ttl

Recorded(id, t) == RecordedIn(idemTable, seenMem, id, t)

\* the host has used up its quota in the window open at instant t
QuotaUsed(h, t) ==
  /\ h \in DOMAIN counters
  /\ t - counters[h].window_start < cfg.rate_window
  /\ counters[h].count >= cfg.rate_limit

AuditTypes(a) == {a[i].type : i \in 1..Len(a)}

\* the step leaves correlation, policy and alerting untouched
NoDownstreamEffect ==
  /\ events' = events
  /\ hostMem' = hostMem /\ hostTable' = hostTable
  /\ lastEmit' = lastEmit /\ alerts' = alerts
  /\ AuditTypes(resp'.audit) \cap
       {"correlation_decision", "policy_decision", "alert_emitted",
        "gateway_accept"} = {}

\* the step writes no idempotency mark
NoMark ==
  /\ idemTable' = idemTable
  /\ \A id \in DOMAIN seenMem' : id \in DOMAIN seenMem /\ seenMem'[id] = seenMem[id]

StepOrder ==
  <<"signature", "parse", "replay", "idempotency_seen", "rate_limit",
    "idempotency_mark", "correlate", "policy", "alerts", "audit">>

\* the outcome the admission order prescribes for request r in this state:
\* the reason of the first failing check and the number of steps run
Prescribed(r) ==
  IF HeaderMissing(r) THEN [detail |-> "missing_signature", steps |-> 1]
  ELSE IF secret = "" THEN [detail |-> "ARES_SHARED_SECRET is not set", steps |-> 1]
  ELSE IF FormatBad(r) THEN [detail |-> "bad_signature_format", steps |-> 1]
  ELSE IF MacBad(r) THEN [detail |-> "signature_mismatch", steps |-> 1]
  ELSE IF r.body.kind = "garbage" THEN [detail |-> "invalid_json", steps |-> 2]
  ELSE IF r.body.kind = "badschema"
    THEN [detail |-> "schema_validation_failed", steps |-> 2]
  ELSE IF OutsideReplayWindow(r, now)
    THEN [detail |-> "replay_window_exceeded", steps |-> 3]
  ELSE IF Recorded(EventOf(r).event_id, now)
    THEN [detail |-> "duplicate_event_id", steps |-> 4]
  ELSE IF QuotaUsed(EventOf(r).host, now)
    THEN [detail |-> "rate_limited", steps |-> 5]
  ELSE [detail |-> "ok", steps |-> 10]

(***************************************************************************)
(* C1: every /ingest request is answered by the first failing check of     *)
(* the order signature, parse, replay window, idempotency seen?, rate      *)
(* limit, idempotency mark; a rejected request runs no later step, writes  *)
(* no idempotency mark and reaches neither the correlator, the policy nor  *)
(* alert emission; a rate-limited event is never added to the store.       *)
(***************************************************************************)
C1_AdmissionOrder ==
  [][Handled =>
       /\ resp'.detail = Prescribed(req').detail
       /\ resp'.steps = SubSeq(StepOrder, 1, Prescribed(req').steps)
       /\ resp'.status # 200 => NoMark /\ NoDownstreamEffect
       /\ resp'.status = 200 =>
            /\ ~Recorded(EventOf(req').event_id, now)
            /\ ~QuotaUsed(EventOf(req').host, now)
            /\ ~OutsideReplayWindow(req', now)
            /\ RecordedIn(idemTable', seenMem', EventOf(req').event_id, now)
     ]_vars

\* a rate-limited event: rejected at the fifth step, unmarked, while
\* earlier events of the host sit in the store
C1_Witness ==
  /\ resp.status = 429
  /\ resp.steps = SubSeq(StepOrder, 1, 5)
  /\ ~Recorded(EventOf(req).event_id, resp.at)
  /\ "h1" \in DOMAIN events /\ Len(events["h1"]) = cfg.rate_limit

(***************************************************************************)
(* C2: when signature verification fails (header missing, bad prefix or    *)
(* HMAC mismatch) the request ends with 401 and the matching reason, no    *)
(* idempotency mark is written (table or in-memory) and the correlator is  *)
(* not called.                                                             *)
(***************************************************************************)
C2_BadSignatureStops ==
  [][Handled /\ SigFails(req') =>
       /\ resp'.status = 401
       /\ resp'.detail = (IF HeaderMissing(req') THEN "missing_signature"
                          ELSE IF FormatBad(req') THEN "bad_signature_format"
                          ELSE "signature_mismatch")
       /\ idemTable' = idemTable /\ seenMem' = seenMem
       /\ events' = events
       /\ "correlate" \notin {resp'.steps[i] : i \in 1..Len(resp'.steps)}
     ]_vars

\* a request whose signature was made over another body was refused and
\* its event_id is still free
C2_Witness ==
  /\ resp.status = 401 /\ resp.detail = "signature_mismatch"
  /\ req.hdr.mac.key = secret /\ req.hdr.mac.msg # req.body
  /\ ~Recorded(EventOf(req).event_id, resp.at)
  /\ resp.at > Epoch

(***************************************************************************)
(* C3 (as stated): once an event_id was accepted, every later valid        *)
(* submission of it is rejected 409 duplicate_event_id, with no            *)
(* correlation, policy or alert record and no change of the store, the     *)
(* host policy state or the dedupe map.                                    *)
(***************************************************************************)
DuplicateRejected ==
  /\ resp'.status = 409 /\ resp'.detail = "duplicate_event_id"
  /\ NoDownstreamEffect

C4_FixedWindow ==
  /\ [](\A k \in DOMAIN counters :
          counters[k].count >= 1 /\ counters[k].count <= cfg.rate_limit)
  /\ [][\A k \in LimiterKeys :
          (call' # call /\ call'.key = k) =>
            LET fresh == k \notin DOMAIN counters
                          \/ now - counters[k].window_start >= cfg.rate_window
            IN  /\ fresh =>
                     /\ call'.ok /\ call'.reason = "ok"
                     /\ counters'[k] = [window_start |-> now, count |-> 1]
                /\ (~fresh /\ counters[k].count < cfg.rate_limit) =>
                     /\ call'.ok /\ call'.reason = "ok"
                     /\ counters'[k] = [window_start |-> counters[k].window_start,
                                        count |-> counters[k].count + 1]
                /\ (~fresh /\ counters[k].count >= cfg.rate_limit) =>
                     /\ ~call'.ok /\ call'.reason = "rate_limited"
                     /\ counters' = counters
                /\ \A j \in DOMAIN counters : j # k => counters'[j] = counters[j]
     ]_vars

\* the first call of a new window, made exactly window_seconds after the
\* start of a window that was used up
C4_Witness ==
  /\ call.op = "allow" /\ call.ok
  /\ call.before =
       <<[window_start |-> call.at - cfg.rate_window, count |-> cfg.rate_limit]>>
  /\ counters[call.key] = [window_start |-> call.at, count |-> 1]

(***************************************************************************)
(* C5: a rate-limited event is not marked as seen; resubmitted once the    *)
(* rate window has rolled over, and still inside the replay window, it is  *)
(* accepted.                                                               *)
(***************************************************************************)
C5_RateLimitedRetry ==
  /\ [](resp.status = 429 => ~Recorded(EventOf(req).event_id, now))
  /\ [][(/\ Handled
          /\ resp.status = 429
          /\ req' = req
          /\ ~OutsideReplayWindow(req, now)
          /\ now - counters[EventOf(req).host].window_start >= cfg.rate_window)
         => resp'.status = 200]_vars

\* an event accepted on the retry that followed its 429
C5_Witness ==
  /\ resp.status = 200
  /\ accepted[EventOf(req).event_id].retry
  /\ accepted[EventOf(req).event_id].at = resp.at

(***************************************************************************)
(* C6 (as stated): re-POSTing the byte-identical signed event that was     *)
(* accepted is rejected 409 duplicate_event_id on every retry made within  *)
(* the idempotency TTL, with one gateway_reject audit record of a fixed    *)
(* shape.                                                                  *)
(***************************************************************************)
RejectShape ==
  {"type", "path", "client_ip", "verification_status", "verification_reason",
   "body_sha256", "event_id", "host", "source", "received_time_utc"}

\* req' re-POSTs an accepted request within the TTL
RePost ==
  /\ Handled /\ ValidEvent(req')
  /\ EventOf(req').event_id \in DOMAIN accepted
  /\ accepted[EventOf(req').event_id].body = req'.body
  /\ now - accepted[EventOf(req').event_id].at <= cfg.idempo_ttl

OneRejectRecord ==
  /\ Len(resp'.audit) = 1
  /\ resp'.audit[1].type = "gateway_reject"
  /\ DOMAIN resp'.audit[1] = RejectShape

C6_RePostAlways409 ==
  [][RePost => /\ resp'.status = 409
               /\ resp'.detail = "duplicate_event_id"
               /\ OneRejectRecord]_vars

(***************************************************************************)
(* C6 (amended): every such retry is rejected with one gateway_reject      *)
(* record of the same shape: 409 duplicate_event_id while the event's      *)
(* timestamp is inside the replay window, 400 replay_window_exceeded once  *)
(* it is not.                                                              *)
(***************************************************************************)
C6_RePostRejected ==
  [][RePost =>
       /\ OneRejectRecord
       /\ resp'.audit[1].verification_reason = resp'.detail
       /\ IF OutsideReplayWindow(req', now)
            THEN resp'.status = 400 /\ resp'.detail = "replay_window_exceeded"
            ELSE resp'.status = 409 /\ resp'.detail = "duplicate_event_id"
     ]_vars

\* an accepted body re-POSTed after its timestamp left the replay window
C6_Witness ==
  /\ resp.status = 400 /\ resp.detail = "replay_window_exceeded"
  /\ EventOf(req).event_id \in DOMAIN accepted
  /\ accepted[EventOf(req).event_id].body = req.body
  /\ accepted[EventOf(req).event_id].at < resp.at

(***************************************************************************)
(* C7: the replay check passes an event iff |now - timestamp_utc| <=       *)
(* window; timestamps farther than the window in the past or in the future *)
(* are rejected with replay_window_exceeded.                               *)
(***************************************************************************)
C7_ReplayWindowIff ==
  [][Handled /\ ValidEvent(req') =>
       /\ (resp'.detail = "replay_window_exceeded")
            <=> (TooOld(req', now) \/ TooNew(req', now))
       /\ resp'.detail = "replay_window_exceeded" =>
            resp'.status = 400 /\ Len(resp'.steps) = 3
       /\ resp'.detail # "replay_window_exceeded" => Len(resp'.steps) > 3
     ]_vars

\* a future-dated event refused
C7_Witness ==
  /\ resp.detail = "replay_window_exceeded"
  /\ EventOf(req).timestamp_utc > resp.at + cfg.replay_window

(***************************************************************************)
(* C8 (as stated): an event whose timestamp is exactly window_seconds      *)
(* before or after the gateway clock is rejected.                          *)
(***************************************************************************)
Distance(a, b) == IF a < b THEN b - a ELSE a - b

AtWindowEdge ==
  /\ resp.status # 0 /\ ValidEvent(req)
  /\ Distance(resp.at, EventOf(req).timestamp_utc) = cfg.replay_window

C8_EdgeRejected ==
  AtWindowEdge => resp.detail = "replay_window_exceeded"

(***************************************************************************)
(* C8 (amended): an event exactly window_seconds before or after the       *)
(* gateway clock passes the replay check; one second farther it is         *)
(* rejected with replay_window_exceeded.                                   *)
(***************************************************************************)
C8_EdgePasses ==
  /\ AtWindowEdge =>
       resp.detail # "replay_window_exceeded" /\ Len(resp.steps) > 3
  /\ (/\ resp.status # 0 /\ ValidEvent(req)
      /\ Distance(resp.at, EventOf(req).timestamp_utc) = cfg.replay_window + 1)
       => resp.status = 400 /\ resp.detail = "replay_window_exceeded"

\* an event dated exactly one window ahead of the clock was accepted
C8_Witness ==
  /\ resp.status = 200
  /\ EventOf(req).timestamp_utc = resp.at + cfg.replay_window

(***************************************************************************)
(* C9: the correlator's decision is BLOCK iff its reasons hold             *)
(* ingest_storm together with brute_force_suspected or                     *)
(* password_spray_suspected; otherwise THROTTLE iff there is any reason;   *)
(* otherwise ALLOW.                                                        *)
(***************************************************************************)
ReasonsOf(d) == {d.reasons[i] : i \in 1..Len(d.reasons)}

C9_DecisionTable ==
  resp.status = 200 =>
    LET R == ReasonsOf(resp.correlation)
        block == "ingest_storm" \in R
                   /\ ("brute_force_suspected" \in R
                       \/ "password_spray_suspected" \in R)
    IN  /\ resp.correlation.decision = "BLOCK" <=> block
        /\ resp.correlation.decision = "THROTTLE" <=> (~block /\ R # {})
        /\ resp.correlation.decision = "ALLOW" <=> R = {}

\* a storm with a spray and no brute force: BLOCK
C9_Witness ==
  /\ resp.status = 200
  /\ resp.correlation.decision = "BLOCK"
  /\ ReasonsOf(resp.correlation) = {"ingest_storm", "password_spray_suspected"}

(***************************************************************************)
(* C10 (as stated): brute_force_suspected is a reason of an event iff the  *)
(* auth/login_failed events of its host received within brute_window of    *)
(* it, the event itself included, whose user is the event's user (a        *)
(* missing user counting as "unknown") number at least brute_threshold;    *)
(* with the defaults 7 do not fire the rule and 8 do.                      *)
(***************************************************************************)
UserNames == {None, "", "unknown", "alice", "bob"}

NilAsUnknown == [u \in UserNames |-> IF u = None THEN "unknown" ELSE u]

NilOrEmptyAsUnknown ==
  [u \in UserNames |-> IF u = None \/ u = "" THEN "unknown" ELSE u]

\* failed logins the store holds for the host of r inside the brute window
\* ending at t, plus r itself if it is one; two users are the same when
\* name maps them to the same name
FailedLogins(r, t, name) ==
  LET held == IF r.host \in DOMAIN events THEN events[r.host] ELSE <<>>
  IN  Cardinality({i \in 1..Len(held) :
                     /\ held[i].received_time_utc >= t - cfg.brute_window
                     /\ held[i].category = "auth"
                     /\ held[i].action = "login_failed"
                     /\ name[held[i].user] = name[r.user]})
      + (IF r.category = "auth" /\ r.action = "login_failed" THEN 1 ELSE 0)

BruteRule(name) ==
  (Handled /\ resp'.status = 200) =>
    LET n == FailedLogins(EventOf(req'), now, name)
        fired == "brute_force_suspected" \in ReasonsOf(resp'.correlation)
    IN  /\ fired <=> n >= cfg.brute_threshold
        /\ n = 7 => ~fired
        /\ n = 8 => fired

C10_BruteNilUser == [][BruteRule(NilAsUnknown)]_vars

(***************************************************************************)
(* C10 (amended): the same, a missing or empty user counting as            *)
(* "unknown".                                                              *)
(***************************************************************************)
C10_BruteNilOrEmptyUser == [][BruteRule(NilOrEmptyAsUnknown)]_vars

\* the eighth failed login in the window fired the rule, one of the eight
\* carrying an empty user and the others none
C10_Witness ==
  /\ resp.status = 200
  /\ "brute_force_suspected" \in ReasonsOf(resp.correlation)
  /\ resp.correlation.context.login_failed_count = 8
  /\ \E i \in 1..Len(events["h1"]) : events["h1"][i].user = ""

(***************************************************************************)
(* C11: password_spray_suspected is a reason of an event only when the     *)
(* event has a source address and, among the auth/login_failed events of   *)
(* its host from that address received within spray_window of it (the      *)
(* event itself included), there are at least spray_fail_threshold events  *)
(* and at least spray_unique_users_threshold distinct users; with one      *)
(* threshold missed, or without a source address, it is not a reason.      *)
(***************************************************************************)
\* the events the store holds for the host of r, and r itself, as received
\* at instant t
WithCurrent(r, t) ==
  (IF r.host \in DOMAIN events THEN events[r.host] ELSE <<>>)
    \o <<[category |-> r.category, action |-> r.action, user |-> r.user,
          src_ip |-> r.src_ip, received_time_utc |-> t]>>

SprayFailures(r, t) ==
  LET all == WithCurrent(r, t)
  IN  {i \in 1..Len(all) : /\ all[i].received_time_utc >= t - cfg.spray_window
                            /\ all[i].category = "auth"
                            /\ all[i].action = "login_failed"
                            /\ all[i].src_ip = r.src_ip}

SprayUsers(r, t) == {WithCurrent(r, t)[i].user : i \in SprayFailures(r, t)}

C11_SprayNeedsBoth ==
  [][(Handled /\ resp'.status = 200
        /\ "password_spray_suspected" \in ReasonsOf(resp'.correlation))
     => LET r == EventOf(req')
        IN  /\ r.src_ip # None
            /\ Cardinality(SprayFailures(r, now)) >= cfg.spray_fail_threshold
            /\ Cardinality(SprayUsers(r, now)) >= cfg.spray_unique_users_threshold
    ]_vars

\* the rule fired on the third failure from one address, of two users
C11_Witness ==
  /\ resp.status = 200
  /\ "password_spray_suspected" \in ReasonsOf(resp.correlation)
  /\ resp.correlation.context.spray_fail_count = cfg.spray_fail_threshold
  /\ resp.correlation.context.spray_unique_users = cfg.spray_unique_users_threshold

(***************************************************************************)
(* C12: ingest_storm is a reason of an event iff the events of its host    *)
(* received within storm_window of it, the event itself included, number   *)
(* strictly more than storm_threshold: with the defaults the 50th event    *)
(* within 30 s does not fire and the 51st does.  An event whose only       *)
(* reason is ingest_storm gets THROTTLE; with brute_force_suspected as     *)
(* well it gets BLOCK.                                                     *)
(***************************************************************************)
StormWindowCount(r, t) ==
  LET all == WithCurrent(r, t)
  IN  Cardinality({i \in 1..Len(all) :
                     all[i].received_time_utc >= t - cfg.storm_window})

PriorFails(r, t, name) ==
  LET held == IF r.host \in DOMAIN events THEN events[r.host] ELSE <<>>
  IN  Cardinality({i \in 1..Len(held) :
                     /\ held[i].received_time_utc >= t - cfg.success_window
                     /\ held[i].category = "auth"
                     /\ held[i].action = "login_failed"
                     /\ name[held[i].user] = name[r.user]})

\* an alert of the rule with the dedupe key of r was written less than the
\* dedupe TTL before t
AlertedWithinTtl(rule_id, r, t) ==
  \E i \in 1..Len(alerts) :
     /\ _key(alerts[i].rule_id, alerts[i].host, alerts[i].user, alerts[i].src_ip)
          = _key(rule_id, r.host, r.user, r.src_ip)
     /\ t - fromisoformat(alerts[i].created_time_utc) < cfg.alert_ttl

\* the alerts of the rule the handler wrote in this step
NewAlerts(rule_id) ==
  {i \in (Len(alerts) + 1)..Len(alerts') : alerts'[i].rule_id = rule_id}

SuccessRule(name, deduped) ==
  (Handled /\ resp'.status = 200) =>
    LET r == EventOf(req')
        n == PriorFails(r, now, name)
        fired == "success_after_failures" \in ReasonsOf(resp'.correlation)
        suppressed == deduped /\ AlertedWithinTtl("SUCCESS_AFTER_FAILURES_V1", r, now)
    IN  /\ fired <=> /\ r.category = "auth" /\ r.action = "login_success"
                      /\ n >= cfg.success_prior_fail_threshold
        /\ (r.category = "auth" /\ r.action = "login_failed") => ~fired
        /\ fired => Cardinality(NewAlerts("SUCCESS_AFTER_FAILURES_V1"))
                       = IF suppressed THEN 0 ELSE 1

C13_SuccessAlwaysAlerts == [][SuccessRule(NilAsUnknown, FALSE)]_vars

(***************************************************************************)
(* C13 (amended): the same, a missing or empty user counting as            *)
(* "unknown", and the firing success event leading to one alert unless an  *)
(* alert with the same dedupe key was written less than the dedupe TTL     *)
(* before, and to none then.                                               *)
(***************************************************************************)
C13_SuccessAfterFailures == [][SuccessRule(NilOrEmptyAsUnknown, TRUE)]_vars

\* a success with an empty user fired the rule on failures without a user
\* and wrote its alert
C13_Witness ==
  /\ resp.status = 200
  /\ "success_after_failures" \in ReasonsOf(resp.correlation)
  /\ EventOf(req).user = ""
  /\ \E i \in 1..Len(events["h1"]) :
        events["h1"][i].action = "login_failed" /\ events["h1"][i].user = None
  /\ alerts # <<>>
  /\ alerts[Len(alerts)].rule_id = "SUCCESS_AFTER_FAILURES_V1"
  /\ alerts[Len(alerts)].created_time_utc = isoformat(now)

(***************************************************************************)
(* C14: the rules run in the order storm, brute force, spray, success, so  *)
(* the reasons of an event appear in that order, and each of the four      *)
(* rules writes its counters into the context whether or not it fires,     *)
(* also for an event without src_ip and for one that is no login_success.  *)
(***************************************************************************)
RuleOrder ==
  <<"ingest_storm", "brute_force_suspected", "password_spray_suspected",
    "success_after_failures">>

Rank(tag) == CHOOSE i \in 1..Len(RuleOrder) : RuleOrder[i] = tag

InRuleOrder(reasons) ==
  /\ \A i \in 1..Len(reasons) : InSeq(reasons[i], RuleOrder)
  /\ \A i, j \in 1..Len(reasons) : i < j => Rank(reasons[i]) < Rank(reasons[j])

StormKeys == {"storm_count", "storm_window_seconds"}
BruteKeys == {"brute_user", "login_failed_count", "brute_window_seconds"}
SprayKeys ==
  {"spray_src_ip", "spray_fail_count", "spray_unique_users", "spray_window_seconds"}
SuccessKeys ==
  {"success_user", "success_prior_fail_count", "success_window_seconds"}

\* the keys a rule writes are all in the context when due, and none of them
\* otherwise
Written(keys, due) ==
  IF due THEN keys \subseteq DOMAIN resp.correlation.context
         ELSE keys \cap DOMAIN resp.correlation.context = {}

C14_EveryRuleWrites ==
  resp.status = 200 =>
    /\ InRuleOrder(resp.correlation.reasons)
    /\ Written(StormKeys, TRUE)
    /\ Written(BruteKeys, TRUE)
    /\ Written(SprayKeys, TRUE)
    /\ Written(SuccessKeys, TRUE)

(***************************************************************************)
(* C14 (amended): the reasons appear in rule order; the storm and the      *)
(* brute-force rule write their counters for every event, the spray rule   *)
(* for every event with a non-empty src_ip and the success rule for every  *)
(* auth/login_success event, whether or not they fire; for other events    *)
(* the spray rule and the success rule write nothing.                      *)
(***************************************************************************)
C14_RulesInOrder ==
  resp.status = 200 =>
    LET r == EventOf(req)
    IN  /\ InRuleOrder(resp.correlation.reasons)
        /\ Written(StormKeys, TRUE)
        /\ Written(BruteKeys, TRUE)
        /\ Written(SprayKeys, r.src_ip # None /\ r.src_ip # "")
        /\ Written(SuccessKeys, r.category = "auth" /\ r.action = "login_success")

\* a failed login without src_ip fired the storm and the brute-force rule,
\* in that order, and the context has no spray and no success counters
C14_Witness ==
  /\ resp.status = 200
  /\ EventOf(req).src_ip = None
  /\ resp.correlation.reasons = <<"ingest_storm", "brute_force_suspected">>
  /\ SprayKeys \cap DOMAIN resp.correlation.context = {}
  /\ SuccessKeys \cap DOMAIN resp.correlation.context = {}

(***************************************************************************)
(* The host state as stored: the host_policy row when the persistent store *)
(* is configured, else the entry of the in-memory map.                     *)
(***************************************************************************)
QuarantinedIn(table, mem, h) ==
  IF useSqlite THEN h \in DOMAIN table /\ table[h].quarantine = 1
               ELSE h \in DOMAIN mem /\ mem[h].quarantine

\* the stored cooldown instant of the host: <<>> or <<t>>
CooldownIn(table, mem, h) ==
  IF useSqlite
    THEN IF h \in DOMAIN table /\ table[h].cooldown_until_utc # <<>>
           THEN <<fromisoformat(table[h].cooldown_until_utc[1])>> ELSE <<>>
    ELSE IF h \in DOMAIN mem THEN mem[h].cooldown_until_utc ELSE <<>>

Quarantined(h) == QuarantinedIn(hostTable, hostMem, h)
CooldownUntil(h) == CooldownIn(hostTable, hostMem, h)

PolicyHosts == {"h1", "h2"}

\* the policy answered the accepted event with this decision and reason
Answered(decision, reason) ==
  /\ resp'.policy.decision = decision
  /\ resp'.policy.reasons = <<reason>>
  /\ resp'.final_decision = decision

BelowFloor(r) == r.severity < cfg.severity_floor

CooldownActive(h, t) == CooldownUntil(h) # <<>> /\ t < CooldownUntil(h)[1]

CooldownSet(h, t) ==
  CooldownIn(hostTable', hostMem', h) = <<t + cfg.cooldown_seconds>>

C16_FirstMatchingOutcome ==
  [][(Handled /\ resp'.status = 200)
     => LET r == EventOf(req')
            h == r.host
            corr == resp'.correlation
        IN  IF BelowFloor(r)
              THEN Answered("THROTTLE", "below_severity_floor")
            ELSE IF Quarantined(h)
              THEN Answered("BLOCK", "host_quarantined")
            ELSE IF CooldownActive(h, now)
              THEN Answered("BLOCK", "cooldown_active")
            ELSE IF corr.decision = "BLOCK"
              THEN IF "brute_force_suspected" \in ReasonsOf(corr)
                     THEN /\ Answered("BLOCK", "quarantine_activated")
                          /\ QuarantinedIn(hostTable', hostMem', h)
                     ELSE /\ Answered("BLOCK", "correlation_block")
                          /\ CooldownSet(h, now)
            ELSE IF corr.decision = "THROTTLE"
              THEN /\ Answered("THROTTLE", "suspicious_cooldown_set")
                   /\ CooldownSet(h, now)
            ELSE Answered("ALLOW", "ok")
    ]_vars

\* an event below the floor was muted although its host is quarantined and
\* the correlation verdict was BLOCK
C16_Witness ==
  /\ Quarantined("h1")
  /\ resp.status = 200
  /\ resp.policy.reasons = <<"below_severity_floor">>
  /\ resp.correlation.decision = "BLOCK"

(***************************************************************************)
(* C17: after eight accepted auth/login_failed events for host h1 and user *)
(* alice, one second apart, with the default thresholds and no other       *)
(* traffic, the eighth response carries brute_force_suspected and the      *)
(* policy decision BLOCK with quarantine_activated, and the next event for *)
(* h1 is answered BLOCK/host_quarantined.                                  *)
(***************************************************************************)
\* the response held is the one to the n-th accepted event
ResponseTo(n) ==
  /\ Cardinality(DOMAIN accepted) = n
  /\ resp.status = 200
  /\ EventOf(req).event_id = EventIds[n]

\* the first eight events came one second apart
OneSecondApart ==
  \A i \in 2..brute_threshold :
     EventIds[i] \in DOMAIN accepted
       => accepted[EventIds[i]].at = accepted[EventIds[i - 1]].at + 1

PolicyAnswer(decision, reason) ==
  /\ resp.policy.decision = decision
  /\ resp.policy.reasons = <<reason>>

Normal(h, t) == ~Quarantined(h) /\ ~CooldownActive(h, t)

\* floor tells whether the events that come after the cooldown was set are
\* taken at or above the severity floor only
CooldownRule(floor) ==
  (Handled /\ resp'.status = 200) =>
    LET r == EventOf(req')
        h == r.host
        corr == resp'.correlation
        later == ~Quarantined(h) /\ CooldownUntil(h) # <<>>
                   /\ (floor => ~BelowFloor(r))
    IN  /\ (Normal(h, now) /\ corr.decision = "THROTTLE" /\ ~BelowFloor(r))
             => /\ CooldownSet(h, now)
                /\ Answered("THROTTLE", "suspicious_cooldown_set")
        /\ (later /\ now < CooldownUntil(h)[1])
             => Answered("BLOCK", "cooldown_active")
        /\ (later /\ now >= CooldownUntil(h)[1] /\ corr.decision = "ALLOW")
             => Answered("ALLOW", "ok")

Suspicious(corr) ==
  \/ corr.decision = "THROTTLE"
  \/ corr.decision = "BLOCK" /\ "brute_force_suspected" \notin ReasonsOf(corr)

AlertKey(a) == _key(a.rule_id, a.host, a.user, a.src_ip)

AlertTime(a) == fromisoformat(a.created_time_utc)

TtlApart(sink) ==
  \A i, j \in 1..Len(sink) :
     (i < j /\ AlertKey(sink[i]) = AlertKey(sink[j]))
       => AlertTime(sink[j]) - AlertTime(sink[i]) >= cfg.alert_ttl

C20_OneAlertPerTtl ==
  [][(Handled /\ resp'.status = 200)
     => /\ \A reason \in ReasonsOf(resp'.correlation) :
             LET rule_id == reason_to_rule[reason].rule_id
             IN  Cardinality(NewAlerts(rule_id))
                   = IF AlertedWithinTtl(rule_id, EventOf(req'), now) THEN 0 ELSE 1
        /\ Len(alerts') - Len(alerts) <= Len(resp'.correlation.reasons)
        /\ TtlApart(alerts')
    ]_vars

\* the sink holds two alerts of one key exactly one TTL apart, the second
\* written now, and a firing event of that key accepted in between wrote none
C20_Witness ==
  /\ resp.status = 200
  /\ resp.at = now
  /\ Len(alerts) = 2
  /\ AlertKey(alerts[1]) = AlertKey(alerts[2])
  /\ AlertTime(alerts[1]) + cfg.alert_ttl = now
  /\ AlertTime(alerts[2]) = now
  /\ \E id \in DOMAIN accepted :
        /\ accepted[id].at > AlertTime(alerts[1])
        /\ accepted[id].at < now
        /\ OrEmpty(accepted[id].body.event.user) = OrEmpty(alerts[1].user)
        /\ OrEmpty(accepted[id].body.event.src_ip) = OrEmpty(alerts[1].src_ip)

(***************************************************************************)
(* C21: every request to /ingest produces at least one audit record: a     *)
(* gateway_reject on an admission failure, a gateway_accept with a         *)
(* correlation_decision and a policy_decision on success, and a server     *)
(* error record when the shared secret is missing (500).                   *)
(***************************************************************************)
C21_EveryRequestAudited ==
  resp.status # 0 =>
    /\ resp.audit # <<>>
    /\ resp.status \in {400, 401, 409, 429}
         => "gateway_reject" \in AuditTypes(resp.audit)
    /\ resp.status = 200
         => {"gateway_accept", "correlation_decision", "policy_decision"}
              \subseteq AuditTypes(resp.audit)
    /\ resp.status = 500
         => /\ "gateway_reject" \notin AuditTypes(resp.audit)
            /\ AuditTypes(resp.audit) # {}

(***************************************************************************)
(* C22: whatever add and get_recent calls came before, the list returned   *)
(* by get_recent(H) at wall-clock time now holds only records with         *)
(* received_time_utc >= now - store_window, and directly after add(record) *)
(* the sequence of the host has no head entry with received_time_utc <     *)
(* record.received_time_utc - window.                                      *)
(***************************************************************************)
AllWithin(q, t) ==
  \A i \in 1..Len(q) : q[i].received_time_utc >= t - cfg.store_window

C22_StoreWindow ==
  [][/\ (call'.op = "get_recent" /\ call' # call)
        => /\ AllWithin(ItemsOf(call'.returned, events'), now)
           /\ AllWithin(QueueOf(events', call'.key), now)
     /\ (call'.op = "add" /\ call' # call)
        => LET q == events'[call'.key]
           IN  /\ q # <<>>
               /\ q[1].received_time_utc >= now - cfg.store_window
               /\ q[Len(q)].event_id = call'.reason
    ]_vars

\* get_recent dropped two or more stale head entries and returned the rest
C22_Witness ==
  /\ call.op = "get_recent"
  /\ call.at = now
  /\ ItemsOf(call.returned, events) # <<>>
  /\ Len(call.before) >= Len(ItemsOf(call.returned, events)) + 2

(***************************************************************************)
(* C23: the correlation and the policy layer never raise: for every        *)
(* EventRecord the gateway admits, Correlator.evaluate, its store.add and  *)
(* store.get_recent calls included, and the evaluate of the policy engine  *)
(* each return a decision among ALLOW, THROTTLE and BLOCK.                 *)
(***************************************************************************)
C23_LayersNeverRaise ==
  call.op \in {"correlator.evaluate", "policy.evaluate"}
    => /\ call.ok
       /\ call.reason \in {"ALLOW", "THROTTLE", "BLOCK"}

(***************************************************************************)
(* C24: a failure of AlertSinkJSONL.emit or AuditLogger.write never        *)
(* reaches the request path: the request completes with the status and     *)
(* the decision it would have had with both files writable.                *)
(***************************************************************************)
C24_WriteFailureSwallowed ==
  [][(call'.op = "ingest" /\ now' = now)
       => LET out == Handle(req', now)
          IN  /\ resp'.status = out.resp.status
              /\ resp'.final_decision = out.resp.final_decision
    ]_vars

(***************************************************************************)
(* C25: with a persistent store the host policy state is written through   *)
(* on every state change before evaluate returns, so the host_policy row   *)
(* of a host is the state the engine acts on, and a host quarantined or    *)
(* in cooldown before a restart of the process is still quarantined or in  *)
(* cooldown for the events after the restart, the first included.          *)
(***************************************************************************)
\* the host state at the last restart
AtRestart(h) == call.before[Len(call.before)][h]

C25_WriteThroughSurvivesRestart ==
  [][useSqlite =>
       /\ (now' = now /\ call' = call /\ resp'.status = 200)
            => LET r == EventOf(req')
                   h == r.host
                   reason == resp'.policy.reasons[1]
               IN  /\ reason = "quarantine_activated"
                        => QuarantinedIn(hostTable', hostMem', h)
                   /\ reason \in {"correlation_block", "suspicious_cooldown_set"}
                        => CooldownSet(h, now)
                   /\ reason \in {"ok", "below_severity_floor",
                                  "host_quarantined", "cooldown_active"}
                        => hostTable' = hostTable
                   /\ (call.op = "restart" /\ ~BelowFloor(r))
                        => /\ AtRestart(h).quarantine
                                => Answered("BLOCK", "host_quarantined")
                           /\ (/\ ~AtRestart(h).quarantine
                               /\ AtRestart(h).cooldown_until_utc # <<>>
                               /\ now < AtRestart(h).cooldown_until_utc[1])
                                => Answered("BLOCK", "cooldown_active")
       /\ (call'.op = "restart" /\ call' # call)
            => \A h \in PolicyHosts :
                  /\ QuarantinedIn(hostTable', hostMem', h) = Quarantined(h)
                  /\ CooldownIn(hostTable', hostMem', h) = CooldownUntil(h)
    ]_vars

C25_Witness ==
  /\ useSqlite
  /\ call.op = "restart"
  /\ AtRestart("h1").quarantine
  /\ resp.status = 200
  /\ resp.at > call.at
  /\ PolicyAnswer("BLOCK", "host_quarantined")

(***************************************************************************)
(* C26 as claimed: IdempotencyStore behaves the same with and without a    *)
(* persistent store for every sequence of seen and mark calls: seen(id)    *)
(* is true iff id was marked and its first-seen time is within the TTL,    *)
(* and mark leaves the first-seen time of a recorded id unchanged.         *)
(***************************************************************************)
Marked(id) == id \in DOMAIN accepted

SeenCall == call'.op = "seen" /\ call' # call
MarkCall == call'.op = "mark" /\ accepted' # accepted

C26_ModesAgree ==
  [][/\ SeenCall
          => LET id == call'.key
                 recorded == Marked(id) /\ now - accepted[id].first <= cfg.idempo_ttl
             IN  /\ call'.ok = recorded
                 /\ call'.reason = recorded
     /\ MarkCall
          => LET id == call'.key
             IN  /\ id \in DOMAIN seenMem => seenMem'[id] = seenMem[id]
                 /\ id \in DOMAIN idemTable => idemTable'[id] = idemTable[id]
    ]_vars

(***************************************************************************)
(* C26: without a persistent store seen(id) is true iff id was marked and  *)
(* its latest mark is within the TTL, and mark sets the time of the id to  *)
(* the time of the call; with a persistent store seen(id) is true iff id   *)
(* was marked, however long ago, and mark is insert-if-absent: the row     *)
(* keeps the time of the first mark.                                       *)
(***************************************************************************)
C26_EachMode ==
  [][/\ SeenCall
          => LET id == call'.key
             IN  /\ call'.ok = (Marked(id) /\ now - accepted[id].at <= cfg.idempo_ttl)
                 /\ call'.reason = Marked(id)
     /\ MarkCall
          => LET id == call'.key
             IN  /\ seenMem'[id] = now
                 /\ idemTable'[id] = isoformat(accepted'[id].first)
    ]_vars

\* an id marked twice, more than one TTL ago and again since, has just been
\* looked up: the two instances hold different times and the answers of
\* both are true
C26_Witness ==
  /\ call.op = "seen"
  /\ call.at = now
  /\ Marked(call.key)
  /\ now - accepted[call.key].first > cfg.idempo_ttl
  /\ accepted[call.key].at > accepted[call.key].first
  /\ call.ok /\ call.reason

(***************************************************************************)
(* C27: a request rejected before the rate-limit step leaves the rate      *)
(* limit counters unchanged, and so does a request rejected as             *)
(* rate_limited; only a request that passes the step consumes quota, one   *)
(* unit of its host.                                                       *)
(***************************************************************************)
C27_OnlyPassingConsumesQuota ==
  [][Handled =>
       /\ resp'.status # 200 => counters' = counters
       /\ resp'.status = 200
            => LET h == EventOf(req').host
                   fresh == \/ h \notin DOMAIN counters
                            \/ now - counters[h].window_start >= cfg.rate_window
               IN  /\ counters'[h].count = IF fresh THEN 1 ELSE counters[h].count + 1
                   /\ \A k \in DOMAIN counters \ {h} : counters'[k] = counters[k]
    ]_vars

C27_Witness ==
  /\ resp.status = 429
  /\ resp.at = now
  /\ resp.steps[Len(resp.steps)] = "rate_limit"
  /\ counters[EventOf(req).host].count = cfg.rate_limit
  /\ now - counters[EventOf(req).host].window_start < cfg.rate_window

(***************************************************************************)
(* C28: a should_emit call that returns false leaves the last-emit mapping *)
(* unchanged, so the TTL runs from the last alert written and not from the *)
(* last call: a call made at last_emit + ttl returns true however many     *)
(* suppressed calls came in between.                                       *)
(***************************************************************************)
\* the dedupe key of a firing reason of event r
KeyOf(reason, r) == _key(reason_to_rule[reason].rule_id, r.host, r.user, r.src_ip)

C28_SuppressedCallKeepsLastEmit ==
  [][(Handled /\ resp'.status = 200)
     => LET r == EventOf(req')
            fired == ReasonsOf(resp'.correlation) \cap DOMAIN reason_to_rule
        IN  /\ \A reason \in fired :
                  LET k == KeyOf(reason, r)
                      wrote == NewAlerts(reason_to_rule[reason].rule_id) # {}
                  IN  /\ ~wrote => (k \in DOMAIN lastEmit /\ lastEmit'[k] = lastEmit[k])
                      /\ (k \in DOMAIN lastEmit /\ now - lastEmit[k] >= cfg.alert_ttl)
                           => (wrote /\ lastEmit'[k] = now)
            /\ \A k \in DOMAIN lastEmit \ {KeyOf(reason, r) : reason \in fired} :
                  lastEmit'[k] = lastEmit[k]
    ]_vars

\* the call made now, exactly one TTL after the last emit of its key, has
\* returned true, and a call of that key in between was suppressed
C28_Witness ==
  /\ resp.status = 200
  /\ resp.at = now
  /\ "alert_emitted" \in AuditTypes(resp.audit)
  /\ LET r == EventOf(req)
         k == KeyOf("brute_force_suspected", r)
     IN  /\ k \in DOMAIN lastEmit /\ lastEmit[k] = now
         /\ \E i \in 1..Len(alerts) :
               /\ AlertKey(alerts[i]) = k
               /\ AlertTime(alerts[i]) + cfg.alert_ttl = now
         /\ \E id \in DOMAIN accepted :
               /\ accepted[id].at > now - cfg.alert_ttl
               /\ accepted[id].at < now
               /\ KeyOf("brute_force_suspected", accepted[id].body.event) = k

(***************************************************************************)
(* C29: get_recent returns a snapshot: changing the returned list does not *)
(* change the sequence the store holds, a later add does not change a list *)
(* returned earlier, and get_recent itself changes the store only by       *)
(* dropping from the head of the host's sequence the entries received      *)
(* before now - window.                                                    *)
(***************************************************************************)
\* q2 is q1 without its first n entries, all received before t
HeadDropped(q1, q2, t) ==
  \E n \in 0..Len(q1) :
     /\ q2 = SubSeq(q1, n + 1, Len(q1))
     /\ \A i \in 1..n : q1[i].received_time_utc < t

C29_GetRecentSnapshot ==
  [][/\ (call'.op = "del" /\ call' # call) => events' = events
     /\ (call'.op = "add" /\ call' # call)
          => ItemsOf(call'.returned, events') = ItemsOf(call.returned, events)
     /\ (call'.op = "get_recent" /\ call' # call)
          => /\ DOMAIN events' = DOMAIN events
             /\ \A h \in DOMAIN events \ {call'.key} : events'[h] = events[h]
             /\ HeadDropped(QueueOf(events, call'.key),
                            QueueOf(events', call'.key),
                            now - cfg.store_window)
             /\ ItemsOf(call'.returned, events') = QueueOf(events', call'.key)
    ]_vars

\* the caller has removed the head of the list it was given, and the store
\* still holds that record
C29_Witness ==
  /\ call.op = "del"
  /\ \E h \in StoreHosts :
        /\ QueueOf(events, h) # <<>>
        /\ ItemsOf(call.returned, events) = Tail(QueueOf(events, h))

(***************************************************************************)
(* C30: a host becomes Quarantined only by an accepted event of that host  *)
(* whose correlation decision is BLOCK with a reason in quarantine_on; an  *)
(* event whose only correlation reason is brute_force_suspected gets the   *)
(* correlation decision THROTTLE and does not quarantine the host.         *)
(***************************************************************************)
BecomesQuarantined(h) ==
  ~Quarantined(h) /\ QuarantinedIn(hostTable', hostMem', h)

C30_QuarantineOnlyOnBlock ==
  [][/\ \A h \in PolicyHosts :
          BecomesQuarantined(h)
            => /\ Handled /\ resp'.status = 200
               /\ EventOf(req').host = h
               /\ resp'.correlation.decision = "BLOCK"
               /\ ReasonsOf(resp'.correlation) \cap quarantine_on # {}
     /\ (/\ Handled /\ resp'.status = 200
         /\ ReasonsOf(resp'.correlation) = {"brute_force_suspected"})
          => /\ resp'.correlation.decision = "THROTTLE"
             /\ ~BecomesQuarantined(EventOf(req').host)
    ]_vars

\* the event answered last fired the brute-force rule alone, at or above
\* the severity floor, for a host that was and is not quarantined
C30_Witness ==
  /\ resp.status = 200
  /\ resp.at = now
  /\ ReasonsOf(resp.correlation) = {"brute_force_suspected"}
  /\ resp.correlation.decision = "THROTTLE"
  /\ PolicyAnswer("THROTTLE", "suspicious_cooldown_set")
  /\ ~Quarantined(EventOf(req).host)

(***************************************************************************)
(* C31: in RiskPolicyEngine.evaluate, closing an open position at a loss   *)
(* (a signal of the opposite side with pnl < 0) sets cooldown_until_utc to *)
(* now + cooldown_after_loss and returns BLOCK/loss_cooldown_triggered,    *)
(* and every later evaluate for the same (strategy_id, symbol) before      *)
(* cooldown_until_utc returns BLOCK/cooldown_active without opening or     *)
(* closing a position.                                                     *)
(***************************************************************************)
RiskCall == call'.op = "risk.evaluate" /\ call'.n # call.n

RiskAnswer(decision, reason) ==
  call'.decision = decision /\ call'.reason = reason

\* the call closes the position of key k at a loss
ClosesAtLoss(k) ==
  /\ k \in DOMAIN _pos /\ k \notin DOMAIN _pos'
  /\ k \in DOMAIN _risk'
  /\ (k \in DOMAIN _risk /\ _risk[k].day = _risk'[k].day)
        => _risk'[k].realised_pnl < _risk[k].realised_pnl
  /\ (k \notin DOMAIN _risk \/ _risk[k].day # _risk'[k].day)
        => _risk'[k].realised_pnl < 0

\* a cooldown set for key k is still running
InLossCooldown(k) ==
  /\ k \in DOMAIN _risk
  /\ _risk[k].cooldown_until_utc # <<>>
  /\ now < _risk[k].cooldown_until_utc[1]

C31_LossCooldownBlocks ==
  [][RiskCall =>
       LET k == call'.key
       IN  /\ ClosesAtLoss(k)
                => /\ _risk'[k].cooldown_until_utc
                        = <<now + RiskDefaults.cooldown_after_loss>>
                   /\ RiskAnswer("BLOCK", "loss_cooldown_triggered")
           /\ InLossCooldown(k)
                => /\ RiskAnswer("BLOCK", "cooldown_active")
                   /\ _pos' = _pos
    ]_vars

(***************************************************************************)
(* C32                                                                     *)
(***************************************************************************)
Done(p) == tasks[p].pc = "done"

\* the run passed idempo.seen and reached correlator.evaluate
Evaluated(p) ==
  /\ Done(p)
  /\ InSeq("idempotency_seen", tasks[p].steps)
  /\ InSeq("correlate", tasks[p].steps)

\* both held a body when the first of them was resumed
InFlightTogether(p, q) == q \in tasks[p].with \/ p \in tasks[q].with

SameEventId(p, q) ==
  /\ tasks[p].raw.body.kind = "event"
  /\ tasks[q].raw.body.kind = "event"
  /\ tasks[p].raw.body.event.event_id = tasks[q].raw.body.event.event_id

\* C32: of two requests with the same valid event_id that are in flight at
\* the same time, at most one passes the idempotency check and reaches
\* correlator.evaluate, however the event loop orders them.
C32_OneOfTwoConcurrent ==
  \A p \in DOMAIN tasks : \A q \in DOMAIN tasks \ {p} :
    (InFlightTogether(p, q) /\ SameEventId(p, q))
      => ~(Evaluated(p) /\ Evaluated(q))

\* two requests with one event_id were in flight together: one was
\* evaluated, the other answered 409 duplicate_event_id
C32_Witness ==
  \E p \in DOMAIN tasks : \E q \in DOMAIN tasks \ {p} :
    /\ InFlightTogether(p, q)
    /\ SameEventId(p, q)
    /\ Evaluated(p)
    /\ Done(q)
    /\ tasks[q].status = 409
    /\ resp.detail = "duplicate_event_id"

(***************************************************************************)
(* C33                                                                     *)
(***************************************************************************)
DedupeCall == call'.op = "alert.should_emit" /\ call'.n # call.n

\* what should_emit would answer for the tuple t, given the mapping
WouldEmit(last_emit, t, nowv) ==
  should_emit(last_emit, t[1], t[2], t[3], t[4], cfg.alert_ttl, nowv).emit

\* C33: a should_emit call for one key tuple never changes what should_emit
\* answers for a different tuple, also when field values contain '|'.
C33_TuplesIndependent ==
  [][DedupeCall =>
       \A t \in KeyTuples \ {call'.key} :
          WouldEmit(lastEmit', t, now) = WouldEmit(lastEmit, t, now)]_vars

(***************************************************************************)
(* C34                                                                     *)
(***************************************************************************)
HostCall == call'.n # call.n

\* the store without the deques of the other hosts
OnlyHost(events_, host) ==
  [h \in DOMAIN events_ \cap {host} |-> events_[h]]

====
